---- MODULE Spec2Model ----
(***************************************************************************)
(* The session workspace of the PDF toolkit: path resolution, page         *)
(* selection, output retrieval and the session registry, as implemented by *)
(* main.py (PDFToolkit), pdf_api.py (the HTTP handlers) and auth.py.        *)
(*                                                                         *)
(* A file name is the pair <<stem, suffix>> that pathlib splits it into    *)
(* ("a.pdf" is <<"a", ".pdf">>), a location on disk is the sequence of the  *)
(* names from the root, and a pathlib.Path is a record that keeps whether   *)
(* the path is absolute and its parts, ".." included, as pathlib does.      *)
(***************************************************************************)
EXTENDS Integers, Sequences, FiniteSets, TLC

VARIABLES
  dirs,      \* the directories on disk (locations)
  files,     \* the files on disk: location -> [mtime, kind, pages, entries]
  clock,     \* the file system's time, stamped on every file written
  SESSIONS,  \* auth.SESSIONS: session id -> [client_id, expires_at]
  tokens,    \* the JWTs signed so far with JWT_SECRET
  now,       \* _now_utc(), in minutes
  resp,      \* the last request and its response
  tasks,     \* the requests in flight: request id -> what it holds and where it is
  work_queue \* executor._work_queue: the operations waiting for a worker thread

vars == <<dirs, files, clock, SESSIONS, tokens, now, resp, tasks, work_queue>>
\* the state of the requests in flight
inflight == <<tasks, work_queue>>

-----------------------------------------------------------------------------
(* Bounds of the model *)

MaxPages == 3      \* pages of an uploaded document
MaxNow == 90       \* the clock stops here
MaxClock == 2      \* file system time stops here
MaxFiles == 4      \* files on disk beyond which the clients upload no more
MaxListLen == 2    \* entries of an explicit page list
MaxDocPages == 15  \* pages of the longest document that is split by name

-----------------------------------------------------------------------------
(* Names and paths *)

N(s) == <<s, "">>
Pdf(s) == <<s, ".pdf">>
DotDot == N("..")
NameStr(c) == c[1] \o c[2]

\* no location: the result of walking through something that is no directory
NoLoc == << N("<none>") >>

Path(abs, parts) == [present |-> TRUE, abs |-> abs, parts |-> parts]
\* an absent selector (pdf_path = None, filename = None)
None == [present |-> FALSE, abs |-> FALSE, parts |-> <<>>]
AbsPath(loc) == Path(TRUE, loc)

\* the working directory of the server process
Cwd == << N("srv") >>

Parent(loc) == IF loc = <<>> THEN <<>> ELSE SubSeq(loc, 1, Len(loc) - 1)
IsPrefix(a, b) == Len(a) <= Len(b) /\ SubSeq(b, 1, Len(a)) = a
\* pathlib: a in b.parents (proper ancestors only)
InParents(a, b) == Len(a) < Len(b) /\ IsPrefix(a, b)

\* pathlib: a / b
Join(a, b) == IF b.abs THEN b ELSE Path(a.abs, a.parts \o b.parts)

\* pathlib: p.name (the last part; "" for an empty path; ".." stays "..")
PathName(p) == IF p.parts = <<>> THEN N("") ELSE p.parts[Len(p.parts)]

RECURSIVE Normal(_, _)
\* ".." resolved lexically, as os.path.realpath does where nothing is a symlink
Normal(acc, parts) ==
  IF parts = <<>> THEN acc
  ELSE IF Head(parts) = DotDot THEN Normal(Parent(acc), Tail(parts))
  ELSE Normal(Append(acc, Head(parts)), Tail(parts))

\* pathlib: p.resolve()
Resolve(p) == AbsPath(Normal(IF p.abs THEN <<>> ELSE Cwd, p.parts))

RECURSIVE Walk(_, _, _)
\* the kernel's walk of `parts` from `cur`: every component it passes through
\* must be a directory; the last one may be anything or nothing
Walk(D, cur, parts) ==
  IF parts = <<>> THEN cur
  ELSE IF cur \notin D THEN NoLoc
  ELSE IF Head(parts) = DotDot THEN Walk(D, Parent(cur), Tail(parts))
  ELSE Walk(D, Append(cur, Head(parts)), Tail(parts))

\* the location a path denotes for the operating system
Locate(D, p) == Walk(D, IF p.abs THEN <<>> ELSE Cwd, p.parts)

\* pathlib: p.exists()
Exists(D, F, p) == LET l == Locate(D, p) IN l \in D \/ l \in DOMAIN F

\* pathlib: p.mkdir(parents=True, exist_ok=True) for a location
Mkdir(D, loc) == D \cup {SubSeq(loc, 1, k) : k \in 0..Len(loc)}

-----------------------------------------------------------------------------
(* PDFToolkit: the workspace layout *)

SessionRoot == << N("tmp"), N("pdf_processing") >>
BaseDir(sid) == Append(SessionRoot, N(sid))
InputDir(base) == Append(base, N("input"))
OutputDir(base) == Append(base, N("output"))
OcrOut(base) == Append(OutputDir(base), N("ocr"))
MdOut(base) == Append(OutputDir(base), N("markdown"))
SplitOut(base) == Append(OutputDir(base), N("splits"))
MergeOut(base) == Append(OutputDir(base), N("merged"))
TempDir(base) == Append(base, N("temp"))

LayoutDirs(base) ==
  {base, InputDir(base), OutputDir(base), OcrOut(base), MdOut(base),
   SplitOut(base), MergeOut(base), TempDir(base)}

\* _setup_paths: the directories after every path of the layout is created
SetupPaths(D, base) == UNION {Mkdir(D, p) : p \in LayoutDirs(base)}

\* get_kit(session_id): the toolkit's base directory; constructing it runs
\* _setup_paths
GetKitBase(sid) == BaseDir(sid)

\* Path.mkdir(parents=True, exist_ok=True) raises when the path or one of the
\* directories above it is a file
MkdirFails(F, loc) == \E k \in 1..Len(loc) : SubSeq(loc, 1, k) \in DOMAIN F

\* paths.values(), in the order of the dict
LayoutOrder(base) ==
  <<base, InputDir(base), OutputDir(base), OcrOut(base), MdOut(base),
    SplitOut(base), MergeOut(base), TempDir(base)>>

RECURSIVE SetupLoop(_, _, _)
\* the loop of _setup_paths: it stops at the first mkdir that raises and
\* leaves what it made before
SetupLoop(D, F, ps) ==
  IF ps = <<>> THEN [ok |-> TRUE, dirs |-> D]
  ELSE IF MkdirFails(F, Head(ps)) THEN [ok |-> FALSE, dirs |-> D]
  ELSE SetupLoop(Mkdir(D, Head(ps)), F, Tail(ps))

\* get_kit(session_id) on the disk (D, F): the toolkit is constructed, or
\* the constructor raises FileExistsError
GetKit(D, F, sid) == SetupLoop(D, F, LayoutOrder(BaseDir(sid)))

-----------------------------------------------------------------------------
(* PDFToolkit: resolving the source document *)

Ok(path) == [ok |-> TRUE, err |-> "none", path |-> path]
Fail(err) == [ok |-> FALSE, err |-> err, path |-> None, tried |-> <<>>]

\* the FileNotFoundError of _resolve_input_path; tried holds the paths its
\* message names: "Could not find '{p}'. Tried '{p}' and '{input / p}'."
NotFound(input, p) ==
  [Fail("FileNotFoundError") EXCEPT !.tried = <<p, Join(AbsPath(input), p)>>]

\* sorted(input.glob("*.pdf")): what lies directly under input, file or
\* directory, with the suffix ".pdf" (the match is case sensitive)
ListInputPdfs(D, F, input) ==
  {l \in D \cup DOMAIN F : Len(l) = Len(input) + 1 /\ Parent(l) = input
                            /\ l[Len(l)][2] = ".pdf"}

\* a resolver that takes the first of several candidates
PickFirstPdf(D, F, input) ==
  LET pdfs == ListInputPdfs(D, F, input) IN
  IF pdfs = {} THEN Fail("FileNotFoundError")
  ELSE Ok(AbsPath(CHOOSE l \in pdfs : TRUE))

PickSinglePdf(D, F, input) ==
  LET pdfs == ListInputPdfs(D, F, input) IN
  IF pdfs = {} THEN Fail("FileNotFoundError")
  ELSE IF Cardinality(pdfs) > 1 THEN Fail("ValueError")
  ELSE Ok(AbsPath(CHOOSE l \in pdfs : TRUE))

\* a resolver that tries the basename under input before input/<selector>
ResolveBasenameFirst(D, F, input, p) ==
  IF ~p.present THEN PickSinglePdf(D, F, input)
  ELSE IF Exists(D, F, p) THEN Ok(p)
  ELSE LET candidate == Resolve(Join(AbsPath(input), p))
           candidate2 == Resolve(Join(AbsPath(input), Path(FALSE, <<PathName(p)>>)))
       IN IF Exists(D, F, candidate2) THEN Ok(candidate2)
          ELSE IF Exists(D, F, candidate) THEN Ok(candidate)
          ELSE NotFound(input, p)

ResolveInputPath(D, F, input, p) ==
  IF ~p.present THEN PickSinglePdf(D, F, input)
  ELSE IF Exists(D, F, p) THEN Ok(p)
  ELSE LET candidate == Resolve(Join(AbsPath(input), p))
           candidate2 == Resolve(Join(AbsPath(input), Path(FALSE, <<PathName(p)>>)))
       IN IF Exists(D, F, candidate) THEN Ok(candidate)
          ELSE IF Exists(D, F, candidate2) THEN Ok(candidate2)
          ELSE NotFound(input, p)

-----------------------------------------------------------------------------
(* PDFToolkit.split_pages: the pages selected *)

Digits == <<"0", "1", "2", "3", "4", "5", "6", "7", "8", "9">>
IsDigit(c) == \E d \in 1..10 : Digits[d] = c
DigitVal(c) == (CHOOSE d \in 1..10 : Digits[d] = c) - 1

RECURSIVE StripSpaces(_)
\* str.replace(" ", "")
StripSpaces(cs) ==
  IF cs = <<>> THEN <<>>
  ELSE IF Head(cs) = " " THEN StripSpaces(Tail(cs))
  ELSE <<Head(cs)>> \o StripSpaces(Tail(cs))

\* the index of the first "-" of cs, 0 when it has none
FirstDash(cs) ==
  IF \E i \in 1..Len(cs) : cs[i] = "-"
  THEN CHOOSE i \in 1..Len(cs) : cs[i] = "-" /\ \A j \in 1..(i - 1) : cs[j] # "-"
  ELSE 0

RECURSIVE Unsigned(_, _)
Unsigned(acc, cs) ==
  IF cs = <<>> THEN acc ELSE Unsigned(10 * acc + DigitVal(Head(cs)), Tail(cs))

AllDigits(cs) == cs # <<>> /\ \A i \in 1..Len(cs) : IsDigit(cs[i])

\* int(s) accepts an optional sign followed by digits
IsInt(cs) ==
  \/ AllDigits(cs)
  \/ cs # <<>> /\ Head(cs) \in {"-", "+"} /\ AllDigits(Tail(cs))
IntOf(cs) ==
  IF Head(cs) = "-" THEN 0 - Unsigned(0, Tail(cs))
  ELSE IF Head(cs) = "+" THEN Unsigned(0, Tail(cs))
  ELSE Unsigned(0, cs)

Min(a, b) == IF a <= b THEN a ELSE b

\* list(range(a, b)): the end excluded
RangeExclusive(a, b) == [i \in 1..(IF b > a THEN b - a ELSE 0) |-> a + i - 1]

\* list(range(a, b + 1))
Range(a, b) == [i \in 1..(IF b >= a THEN b - a + 1 ELSE 0) |-> a + i - 1]

RECURSIVE SortedDescending(_)
\* the set in descending order
SortedDescending(S) ==
  IF S = {} THEN <<>>
  ELSE LET m == CHOOSE x \in S : \A y \in S : y <= x
       IN <<m>> \o SortedDescending(S \ {m})

RECURSIVE Sorted(_)
\* sorted(set(...)) of a finite set of integers
Sorted(S) ==
  IF S = {} THEN <<>>
  ELSE LET m == CHOOSE x \in S : \A y \in S : x <= y
       IN <<m>> \o Sorted(S \ {m})

NoRange == [present |-> FALSE, chars |-> <<>>]
RangeStr(cs) == [present |-> TRUE, chars |-> cs]
NoPages == [present |-> FALSE, list |-> <<>>]
PageList(l) == [present |-> TRUE, list |-> l]

Targets(t) == [ok |-> TRUE, err |-> "none", targets |-> t]
NoTargets(err) == [ok |-> FALSE, err |-> err, targets |-> <<>>]

\* split_pages, "Build target page list"
BuildTargets(pages, page_range, total) ==
  IF page_range.present /\ page_range.chars # <<>> THEN
    LET rng == StripSpaces(page_range.chars)
        d == FirstDash(rng)
        start_s == SubSeq(rng, 1, d - 1)
        end_s == SubSeq(rng, d + 1, Len(rng))
    IN IF d = 0 THEN NoTargets("ValueError")
       ELSE IF ~IsInt(start_s) \/ ~IsInt(end_s) THEN NoTargets("ValueError")
       ELSE LET start_i == IntOf(start_s)
                end_i == IntOf(end_s)
            IN IF start_i < 1 \/ end_i < 1 \/ start_i > end_i
               THEN NoTargets("ValueError")
               ELSE Targets(Range(start_i, Min(end_i, total)))
  ELSE IF pages.present /\ pages.list # <<>> THEN
    LET targets == Sorted({pages.list[i] : i \in
                     {j \in 1..Len(pages.list) : 1 <= pages.list[j] /\ pages.list[j] <= total}})
    IN IF targets = <<>> THEN NoTargets("ValueError") ELSE Targets(targets)
  ELSE Targets(Range(1, total))

-----------------------------------------------------------------------------
(* PDFToolkit.split_pages: the artifacts written *)

RECURSIVE Zeros(_)
Zeros(k) == IF k <= 0 THEN "" ELSE "0" \o Zeros(k - 1)
\* f"{n:0wd}" for n >= 0
Pad(n, w) == Zeros(w - Len(ToString(n))) \o ToString(n)

RECURSIVE JoinPad2(_)
\* "_".join(f"{p:02d}" for p in ps)
JoinPad2(ps) ==
  IF ps = <<>> THEN ""
  ELSE IF Len(ps) = 1 THEN Pad(ps[1], 2)
  ELSE Pad(ps[1], 2) \o "_" \o JoinPad2(Tail(ps))

SelListed == 10

\* a name that lists every selected page
CombinedNameAll(stem, targets, ranged) ==
  IF ranged
  THEN Pdf(stem \o "_pages_" \o Pad(targets[1], 4) \o "-" \o Pad(targets[Len(targets)], 4))
  ELSE Pdf(stem \o "_pages_sel_" \o JoinPad2(targets))

\* the name of a combined split
CombinedName(stem, targets, ranged) ==
  IF ranged
  THEN Pdf(stem \o "_pages_" \o Pad(targets[1], 4) \o "-" \o Pad(targets[Len(targets)], 4))
  ELSE Pdf(stem \o "_pages_sel_"
           \o JoinPad2(SubSeq(targets, 1, Min(Len(targets), SelListed)))
           \o (IF Len(targets) > SelListed
               THEN "_plus" \o ToString(Len(targets) - SelListed) ELSE ""))

\* a name that differs from one call to the next
PageNameStamped(stem, p) ==
  Pdf(stem \o "_p" \o Pad(p, 4) \o "_" \o ToString(Cardinality(DOMAIN files)))

\* the name of one page of a separate split
PageName(stem, p) == Pdf(stem \o "_p" \o Pad(p, 4))

PdfFile(t, pages) == [mtime |-> t, kind |-> "pdf", pages |-> pages, entries |-> {}]

\* F with the file at loc written
Write(F, loc, file) == [l \in DOMAIN F \cup {loc} |-> IF l = loc THEN file ELSE F[l]]

SplitDone(src, total, targets, outputs, F) ==
  [ok |-> TRUE, err |-> "none", src |-> src, total |-> total, targets |-> targets,
   outputs |-> outputs, files |-> F, tried |-> <<>>]
SplitFailed(err, src, total, targets, F) ==
  [ok |-> FALSE, err |-> err, src |-> src, total |-> total, targets |-> targets,
   outputs |-> <<>>, files |-> F, tried |-> <<>>]

\* PDFToolkit.split_pages on the disk (D, F) at file system time t
SplitPages(D, F, base, pdf_path, pages, page_range, combined, t) ==
  LET r == ResolveInputPath(D, F, InputDir(base), pdf_path)
      loc == Locate(D, r.path)
  IN
  IF ~r.ok THEN [SplitFailed(r.err, None, 0, <<>>, F) EXCEPT !.tried = r.tried]
  ELSE IF loc \notin DOMAIN F THEN SplitFailed("IsADirectoryError", r.path, 0, <<>>, F)
  ELSE IF F[loc].kind # "pdf" THEN SplitFailed("PdfReadError", r.path, 0, <<>>, F)
  ELSE
    LET reader == F[loc].pages
        total == Len(reader)
        stem == PathName(r.path)[1]
        b == BuildTargets(pages, page_range, total)
        targets == b.targets
        out_dir == SplitOut(base)
        ranged == page_range.present /\ page_range.chars # <<>>
    IN
    IF ~b.ok THEN SplitFailed(b.err, r.path, total, <<>>, F)
    ELSE IF combined THEN
      IF ranged /\ targets = <<>> THEN SplitFailed("IndexError", r.path, total, targets, F)
      ELSE LET out == Append(out_dir, CombinedName(stem, targets, ranged))
           IN SplitDone(r.path, total, targets, <<out>>,
                Write(F, out, PdfFile(t, [i \in 1..Len(targets) |-> reader[targets[i]]])))
    ELSE
      LET outs == [i \in 1..Len(targets) |-> Append(out_dir, PageName(stem, targets[i]))]
      IN SplitDone(r.path, total, targets, outs,
           [l \in DOMAIN F \cup {outs[i] : i \in 1..Len(targets)} |->
              IF \E i \in 1..Len(targets) : outs[i] = l
              THEN PdfFile(t, <<reader[targets[CHOOSE i \in 1..Len(targets) : outs[i] = l]]>>)
              ELSE F[l]])

-----------------------------------------------------------------------------
(* PDFToolkit.ocr_pdf and PDFToolkit.pdf_to_markdown *)

\* a text file; its content is the texts of the pages it was made from
TextFile(t, kind, pages) == [mtime |-> t, kind |-> kind, pages |-> pages, entries |-> {}]

ConvertDone(outputs, F) == [ok |-> TRUE, err |-> "none", outputs |-> outputs, files |-> F]
ConvertFailed(err, F) == [ok |-> FALSE, err |-> err, outputs |-> <<>>, files |-> F]

\* F with one file per page of reader written: page i at outs[i], of this kind
WritePerPage(F, outs, kind, reader, t) ==
  [l \in DOMAIN F \cup {outs[i] : i \in 1..Len(reader)} |->
     IF \E i \in 1..Len(reader) : outs[i] = l
     THEN [mtime |-> t, kind |-> kind, entries |-> {},
           pages |-> <<reader[CHOOSE i \in 1..Len(reader) : outs[i] = l]>>]
     ELSE F[l]]

\* PDFToolkit.ocr_pdf on the disk (D, F): the source resolved and rendered,
\* one text per page; "pages" writes <stem>_pNNNN.rapidocr.txt per page,
\* "full" writes <stem>.rapidocr.txt
OcrPdf(D, F, base, pdf_path, output, t) ==
  LET r == ResolveInputPath(D, F, InputDir(base), pdf_path)
      loc == Locate(D, r.path)
  IN
  IF ~r.ok THEN ConvertFailed(r.err, F)
  ELSE IF loc \notin DOMAIN F THEN ConvertFailed("IsADirectoryError", F)
  ELSE IF F[loc].kind # "pdf" THEN ConvertFailed("PdfiumError", F)
  ELSE IF output \notin {"full", "pages"} THEN ConvertFailed("ValueError", F)
  ELSE
    LET reader == F[loc].pages
        stem == PathName(r.path)[1]
        out_dir == OcrOut(base)
        outs == [i \in 1..Len(reader) |->
                   Append(out_dir, <<stem \o "_p" \o Pad(i, 4) \o ".rapidocr", ".txt">>)]
        out == Append(out_dir, <<stem \o ".rapidocr", ".txt">>)
    IN IF output = "pages"
       THEN ConvertDone(outs, WritePerPage(F, outs, "txt", reader, t))
       ELSE ConvertDone(<<out>>, Write(F, out, TextFile(t, "txt", reader)))

\* PDFToolkit.pdf_to_markdown on the disk (D, F): every page written to
\* temp/<stem>_tmp_pNNNN.pdf and converted; then "pages" writes
\* <stem>_pNNNN.md per page and "full" writes <stem>.md
PdfToMarkdown(D, F, base, pdf_path, output, t) ==
  LET r == ResolveInputPath(D, F, InputDir(base), pdf_path)
      loc == Locate(D, r.path)
  IN
  IF ~r.ok THEN ConvertFailed(r.err, F)
  ELSE IF loc \notin DOMAIN F THEN ConvertFailed("IsADirectoryError", F)
  ELSE IF F[loc].kind # "pdf" THEN ConvertFailed("PdfReadError", F)
  ELSE
    LET reader == F[loc].pages
        stem == PathName(r.path)[1]
        md_dir == MdOut(base)
        tmps == [i \in 1..Len(reader) |->
                   Append(TempDir(base), Pdf(stem \o "_tmp_p" \o Pad(i, 4)))]
        outs == [i \in 1..Len(reader) |->
                   Append(md_dir, <<stem \o "_p" \o Pad(i, 4), ".md">>)]
        out == Append(md_dir, <<stem, ".md">>)
        F1 == WritePerPage(F, tmps, "pdf", reader, t)
    IN IF output \notin {"full", "pages"} THEN ConvertFailed("ValueError", F1)
       ELSE IF output = "pages"
       THEN ConvertDone(outs, WritePerPage(F1, outs, "md", reader, t))
       ELSE ConvertDone(<<out>>, Write(F1, out, TextFile(t, "md", reader)))

-----------------------------------------------------------------------------
(* PDFToolkit.merge_pdfs *)

MergeDone(out, F) == [ok |-> TRUE, err |-> "none", out |-> out, files |-> F]
MergeFailed(err, F) == [ok |-> FALSE, err |-> err, out |-> NoLoc, files |-> F]

RECURSIVE AppendAllReversed(_, _, _, _, _)
\* a loop that puts each document before the ones appended so far
AppendAllReversed(D, F, input, pdf_files, acc) ==
  IF pdf_files = <<>> THEN [ok |-> TRUE, err |-> "none", pages |-> acc]
  ELSE LET r == ResolveInputPath(D, F, input, Head(pdf_files))
           loc == Locate(D, r.path)
       IN IF ~r.ok THEN [ok |-> FALSE, err |-> r.err, pages |-> acc]
          ELSE IF loc \notin DOMAIN F
            THEN [ok |-> FALSE, err |-> "IsADirectoryError", pages |-> acc]
          ELSE IF F[loc].kind # "pdf"
            THEN [ok |-> FALSE, err |-> "PdfReadError", pages |-> acc]
          ELSE AppendAllReversed(D, F, input, Tail(pdf_files), F[loc].pages \o acc)

RECURSIVE AppendAll(_, _, _, _, _)
\* the loop of merge_pdfs: each name resolved and its pages appended to the
\* writer, stopping at the first that fails
AppendAll(D, F, input, pdf_files, acc) ==
  IF pdf_files = <<>> THEN [ok |-> TRUE, err |-> "none", pages |-> acc]
  ELSE LET r == ResolveInputPath(D, F, input, Head(pdf_files))
           loc == Locate(D, r.path)
       IN IF ~r.ok THEN [ok |-> FALSE, err |-> r.err, pages |-> acc]
          ELSE IF loc \notin DOMAIN F
            THEN [ok |-> FALSE, err |-> "IsADirectoryError", pages |-> acc]
          ELSE IF F[loc].kind # "pdf"
            THEN [ok |-> FALSE, err |-> "PdfReadError", pages |-> acc]
          ELSE AppendAll(D, F, input, Tail(pdf_files), acc \o F[loc].pages)

\* PDFToolkit.merge_pdfs on the disk (D, F) at file system time t; out_name
\* is joined to the merge directory as a path
MergePdfs(D, F, base, pdf_files, out_name, t) ==
  LET out == Locate(D, Join(AbsPath(MergeOut(base)), out_name))
      w == AppendAll(D, F, InputDir(base), pdf_files, <<>>)
  IN IF ~w.ok THEN MergeFailed(w.err, F)
     ELSE IF out = NoLoc \/ Parent(out) \notin D THEN MergeFailed("FileNotFoundError", F)
     ELSE IF out \in D THEN MergeFailed("IsADirectoryError", F)
     ELSE MergeDone(out, Write(F, out, PdfFile(t, w.pages)))

-----------------------------------------------------------------------------
(* pdf_api: retrieval *)

\* _find_by_basename: the files anywhere under root with this name
FindByBasename(F, root, name) ==
  {l \in DOMAIN F : InParents(root, l) /\ l[Len(l)] = name}

\* a pool without the preference for output/
MatchPoolAll(root, candidates) == candidates

\* _pick_best_match: the pool the best match is taken from
MatchPool(root, candidates) ==
  LET output_candidates == {c \in candidates : InParents(OutputDir(root), c)}
  IN IF output_candidates # {} THEN output_candidates ELSE candidates

\* _pick_best_match: max(pool, key=mtime) returns the first maximal element
\* in the order rglob lists the files, which the file system decides; every
\* maximal element is a possible result
PickBestMatch(F, root, candidates) ==
  LET pool == MatchPool(root, candidates)
  IN {c \in pool : \A d \in pool : F[d].mtime <= F[c].mtime}

\* what lies beneath a directory, files and directories alike: dir.rglob("*")
RGlob(D, F, dir) == {l \in D \cup DOMAIN F : InParents(dir, l)}

\* _zip_outputs: the directory that is archived
ZipTarget(D, F, base) ==
  LET out_dir == OutputDir(base)
  IN IF out_dir \in D /\ RGlob(D, F, out_dir) # {} THEN out_dir ELSE base

ZipName == <<"download_all", ".zip">>

\* the archive make_archive writes for target_dir: the relative paths beneath it
ZipFile(D, F, target_dir, t) ==
  [mtime |-> t, kind |-> "zip", pages |-> <<>>,
   entries |-> {SubSeq(l, Len(target_dir) + 1, Len(l)) : l \in RGlob(D, F, target_dir)}]

\* a removal that empties the directory and keeps it
RmTreeBelow(S, base) == {l \in S : ~InParents(base, l)}

\* shutil.rmtree(base_dir)
RmTree(S, base) == {l \in S : ~IsPrefix(base, l)}
RmTreeFiles(F, base) == [l \in RmTree(DOMAIN F, base) |-> F[l]]

-----------------------------------------------------------------------------
(* auth.py *)

ACCESS_TOKEN_EXPIRE_MINUTES == 60

\* CLIENTS: username -> password (PDF_API_CLIENTS; "demo" is the default)
CLIENTS == ("demo" :> "demo") @@ ("acme" :> "acme-pw")

\* _verify_basic returns None when no credentials are sent
NoClient == "<None>"

NoBasic == [present |-> FALSE, username |-> "", password |-> ""]
Basic(u, pw) == [present |-> TRUE, username |-> u, password |-> pw]

NoBearer == [present |-> FALSE, signed |-> FALSE, sub |-> "", sid |-> "", exp |-> 0]
Bearer(tok) == [present |-> TRUE, signed |-> TRUE, sub |-> tok.sub, sid |-> tok.sid,
                exp |-> tok.exp]
\* a token that JWT_SECRET did not sign
Forged(sub, sid, exp) == [present |-> TRUE, signed |-> FALSE, sub |-> sub, sid |-> sid,
                          exp |-> exp]

\* _bump_expiry
BumpExpiry(t) == t + ACCESS_TOKEN_EXPIRE_MINUTES

\* _verify_basic: [ok, client_id]; not ok is the 401 it raises
VerifyBasic(basic) ==
  IF ~basic.present THEN [ok |-> TRUE, client_id |-> NoClient]
  ELSE IF basic.username \notin DOMAIN CLIENTS
          \/ CLIENTS[basic.username] # basic.password
       THEN [ok |-> FALSE, client_id |-> NoClient]
       ELSE [ok |-> TRUE, client_id |-> basic.username]

\* _create_jwt
CreateJwt(client_id, session_id, t) ==
  [sub |-> client_id, sid |-> session_id, exp |-> BumpExpiry(t)]

\* _verify_jwt: jwt.decode rejects a bad signature and a token whose exp lies
\* before now; a payload without sub is rejected too
VerifyJwt(bearer, t) ==
  bearer.signed /\ ~(bearer.exp < t) /\ bearer.sub # NoClient

Admitted(S, auth) == [ok |-> TRUE, status |-> 200, sessions |-> S, auth |-> auth]
Rejected(S, status) == [ok |-> FALSE, status |-> status, sessions |-> S, auth |-> "none"]

\* require_auth_simple, the dependency of every /session/{session_id} route
RequireAuth(S, t, session_id, bearer, basic) ==
  IF bearer.present THEN
    IF ~VerifyJwt(bearer, t) THEN Rejected(S, 401)
    ELSE IF bearer.sid # session_id THEN Rejected(S, 403)
    ELSE Admitted(S, "bearer")
  ELSE
    LET b == VerifyBasic(basic) IN
    IF ~b.ok THEN Rejected(S, 401)
    ELSE IF session_id \notin DOMAIN S THEN Rejected(S, 401)
    ELSE IF S[session_id].client_id # b.client_id THEN Rejected(S, 403)
    ELSE IF t >= S[session_id].expires_at THEN Rejected(S, 401)
    ELSE Admitted([S EXCEPT ![session_id].expires_at = BumpExpiry(t)], "basic")

-----------------------------------------------------------------------------
(* pdf_api: upload *)

PdfTypes == {"application/pdf", "application/x-pdf", "application/octet-stream"}

\* str.lower() on the suffixes the uploads of this model carry
Lower(ext) == IF ext \in {".PDF", ".Pdf"} THEN ".pdf" ELSE ext

UploadFile(content_type, filename, pages) ==
  [content_type |-> content_type, filename |-> filename, pages |-> pages]

\* dst.parent.mkdir(parents=True, exist_ok=True); a parent reached through
\* ".." is created where the kernel's walk ends
MkdirParent(D, dst) ==
  LET parent == Path(dst.abs, SubSeq(dst.parts, 1, Len(dst.parts) - 1))
  IN IF \A i \in 1..Len(parent.parts) : parent.parts[i] # DotDot
     THEN Mkdir(D, Normal(IF parent.abs THEN <<>> ELSE Cwd, parent.parts))
     ELSE IF Locate(D, parent) = NoLoc THEN D ELSE Mkdir(D, Locate(D, parent))

RECURSIVE UploadLoop(_, _, _, _, _, _)
\* the loop of upload_files: every file checked and stored in turn; the first
\* failure ends the request and leaves what was stored before it
UploadLoop(D, F, input, upfiles, saved, t) ==
  IF upfiles = <<>> THEN [ok |-> TRUE, err |-> "none", dirs |-> D, files |-> F,
                          saved |-> saved]
  ELSE
    LET file == Head(upfiles)
        dst == Join(AbsPath(input), file.filename)
        D2 == MkdirParent(D, dst)
        loc == Locate(D2, dst)
    IN IF file.content_type \notin PdfTypes /\ Lower(PathName(file.filename)[2]) # ".pdf"
       THEN [ok |-> FALSE, err |-> "HTTPException400", dirs |-> D, files |-> F,
             saved |-> saved]
       ELSE IF loc = NoLoc \/ Parent(loc) \notin D2
       THEN [ok |-> FALSE, err |-> "FileNotFoundError", dirs |-> D2, files |-> F,
             saved |-> saved]
       ELSE IF loc \in D2
       THEN [ok |-> FALSE, err |-> "IsADirectoryError", dirs |-> D2, files |-> F,
             saved |-> saved]
       ELSE UploadLoop(D2, Write(F, loc, PdfFile(t, file.pages)), input,
                       Tail(upfiles), Append(saved, loc), t)

-----------------------------------------------------------------------------
(* The requests. Each action is one request: the auth dependency, then the *)
(* handler's body. t is the file system time at which the handler writes.  *)

SessionIds == {"s1", "s2"}

\* shutil.rmtree while a worker holds a file of the tree open: the file loses
\* its name and the worker goes on writing to it without an error
Unlinked(T, base) ==
  [id \in DOMAIN T |->
     IF T[id].pc = "write" /\ IsPrefix(base, T[id].fd)
     THEN [T[id] EXCEPT !.attached = FALSE] ELSE T[id]]

\* the dependency's verdict on a request, with the credentials it carried
Auth(sid, bearer, basic) ==
  RequireAuth(SESSIONS, now, sid, bearer, basic)
    @@ [bearer |-> bearer, basic |-> basic]

\* the response of a request the dependency rejected
Denied(op, sid, a) ==
  /\ resp' = [op |-> op, sid |-> sid, status |-> a.status, admitted |-> FALSE,
              bearer |-> a.bearer, basic |-> a.basic]
  /\ UNCHANGED <<dirs, files, clock>>

\* the response of a request whose get_kit raised: 500, from the handler's
\* except clause or, in download, from the server
KitRaised(op, sid) ==
  /\ resp' = [op |-> op, sid |-> sid, status |-> 500, admitted |-> TRUE,
              err |-> "FileExistsError"]
  /\ dirs' = GetKit(dirs, files, sid).dirs
  /\ UNCHANGED <<files, clock>>

\* an entry that lacks its expiry
SessionEntryPartial(client_id, expires_at) == [client_id |-> client_id]

\* the value handshake_basic stores under the new id
SessionEntry(client_id, expires_at) ==
  [client_id |-> client_id, expires_at |-> expires_at]

\* POST /auth/handshake
Handshake(basic) ==
  LET b == VerifyBasic(basic) IN
  /\ UNCHANGED <<dirs, files, clock, now, inflight>>
  /\ IF ~b.ok
     THEN /\ resp' = [op |-> "handshake", sid |-> "", status |-> 401, admitted |-> FALSE]
          /\ UNCHANGED <<SESSIONS, tokens>>
     ELSE \E session_id \in SessionIds \ DOMAIN SESSIONS :
          /\ SESSIONS' = SESSIONS @@
               (session_id :> SessionEntry(b.client_id, BumpExpiry(now)))
          /\ tokens' = tokens \cup {CreateJwt(b.client_id, session_id, now)}
          /\ resp' = [op |-> "handshake", sid |-> session_id, status |-> 200,
                      admitted |-> TRUE]

\* time passes
TickStep == 30
Tick ==
  /\ now + TickStep <= MaxNow
  /\ now' = now + TickStep
  /\ UNCHANGED <<dirs, files, clock, SESSIONS, tokens, resp, inflight>>

\* DELETE /session/{session_id}
CleanupSession(session_id, bearer, basic) ==
  \E a \in {Auth(session_id, bearer, basic)} :
  \E base_dir \in {BaseDir(session_id)} :
  /\ SESSIONS' = a.sessions
  /\ UNCHANGED <<tokens, now, work_queue>>
  /\ IF ~a.ok THEN Denied("cleanup", session_id, a) /\ UNCHANGED tasks
     ELSE IF base_dir \in DOMAIN files
     THEN \* base_dir.exists() holds for a file, and shutil.rmtree raises on it
          /\ UNCHANGED <<dirs, files, clock, tasks>>
          /\ resp' = [op |-> "cleanup", sid |-> session_id, status |-> 500,
                      admitted |-> TRUE, bearer |-> a.bearer, basic |-> a.basic,
                      err |-> "NotADirectoryError", existed |-> TRUE,
                      again |-> resp.op = "cleanup" /\ resp.sid = session_id
                                /\ resp.status = 200,
                      after_removal |-> resp.op = "cleanup" /\ resp.sid = session_id
                                        /\ resp.status = 200 /\ resp.existed]
     ELSE /\ tasks' = IF base_dir \in dirs THEN Unlinked(tasks, base_dir) ELSE tasks
          /\ dirs' = IF base_dir \in dirs THEN RmTree(dirs, base_dir) ELSE dirs
          /\ files' = IF base_dir \in dirs THEN RmTreeFiles(files, base_dir) ELSE files
          /\ UNCHANGED clock
          /\ resp' = [op |-> "cleanup", sid |-> session_id, status |-> 200,
                      admitted |-> TRUE, bearer |-> a.bearer, basic |-> a.basic,
                      existed |-> base_dir \in dirs,
                      again |-> resp.op = "cleanup" /\ resp.sid = session_id
                                /\ resp.status = 200,
                      after_removal |-> resp.op = "cleanup" /\ resp.sid = session_id
                                        /\ resp.status = 200 /\ resp.existed]

\* POST /session/{session_id}/upload
UploadFiles(session_id, bearer, basic, upfiles, t) ==
  \E a \in {Auth(session_id, bearer, basic)} :
  /\ SESSIONS' = a.sessions
  /\ UNCHANGED <<tokens, now, inflight>>
  /\ IF ~a.ok THEN Denied("upload", session_id, a)
     ELSE IF ~GetKit(dirs, files, session_id).ok
     THEN KitRaised("upload", session_id)
     ELSE \E base \in {GetKitBase(session_id)} :
          \E u \in {UploadLoop(SetupPaths(dirs, base), files, InputDir(base),
                               upfiles, <<>>, t)} :
          /\ dirs' = u.dirs
          /\ files' = u.files
          /\ clock' = t
          /\ resp' = [op |-> "upload", sid |-> session_id,
                      status |-> IF u.ok THEN 200 ELSE 500, admitted |-> TRUE,
                      err |-> u.err, saved |-> u.saved, upfiles |-> upfiles]

\* POST /session/{session_id}/ocr
OcrReq(session_id, bearer, basic, filename, output, t) ==
  \E a \in {Auth(session_id, bearer, basic)} :
  /\ SESSIONS' = a.sessions
  /\ UNCHANGED <<tokens, now, inflight>>
  /\ IF ~a.ok THEN Denied("ocr", session_id, a)
     ELSE IF ~GetKit(dirs, files, session_id).ok
     THEN KitRaised("ocr", session_id)
     ELSE \E base \in {GetKitBase(session_id)} :
          \E D \in {SetupPaths(dirs, base)} :
          \E r \in {OcrPdf(D, files, base, filename, output, t)} :
          /\ dirs' = D
          /\ files' = r.files
          /\ clock' = t
          /\ resp' = [op |-> "ocr", sid |-> session_id,
                      status |-> IF r.ok THEN 200 ELSE 500, admitted |-> TRUE,
                      err |-> r.err, filename |-> filename, output |-> output,
                      outputs |-> r.outputs]

\* POST /session/{session_id}/to-markdown
ToMarkdownReq(session_id, bearer, basic, filename, output, t) ==
  \E a \in {Auth(session_id, bearer, basic)} :
  /\ SESSIONS' = a.sessions
  /\ UNCHANGED <<tokens, now, inflight>>
  /\ IF ~a.ok THEN Denied("markdown", session_id, a)
     ELSE IF ~GetKit(dirs, files, session_id).ok
     THEN KitRaised("markdown", session_id)
     ELSE \E base \in {GetKitBase(session_id)} :
          \E D \in {SetupPaths(dirs, base)} :
          \E r \in {PdfToMarkdown(D, files, base, filename, output, t)} :
          /\ dirs' = D
          /\ files' = r.files
          /\ clock' = t
          /\ resp' = [op |-> "markdown", sid |-> session_id,
                      status |-> IF r.ok THEN 200 ELSE 500, admitted |-> TRUE,
                      err |-> r.err, filename |-> filename, output |-> output,
                      outputs |-> r.outputs]

\* the request answered last was a successful split with these arguments
SameSplit(session_id, filename, pages, page_range, combined) ==
  /\ resp.op = "split" /\ resp.admitted /\ resp.status = 200
  /\ resp.sid = session_id /\ resp.filename = filename /\ resp.pages = pages
  /\ resp.page_range = page_range /\ resp.combined = combined

\* POST /session/{session_id}/split-pages
SplitPagesReq(session_id, bearer, basic, filename, pages, page_range, combined, t) ==
  \E a \in {Auth(session_id, bearer, basic)} :
  /\ SESSIONS' = a.sessions
  /\ UNCHANGED <<tokens, now, inflight>>
  /\ IF ~a.ok THEN Denied("split", session_id, a)
     ELSE IF ~GetKit(dirs, files, session_id).ok
     THEN KitRaised("split", session_id)
     ELSE \E base \in {GetKitBase(session_id)} :
          \E D \in {SetupPaths(dirs, base)} :
          \E r \in {SplitPages(D, files, base, filename, pages, page_range,
                               combined, t)} :
          /\ dirs' = D
          /\ files' = r.files
          /\ clock' = t
          /\ resp' = [op |-> "split", sid |-> session_id,
                      status |-> IF r.ok THEN 200 ELSE 500, admitted |-> TRUE,
                      err |-> r.err, tried |-> r.tried,
                      filename |-> filename, pages |-> pages,
                      page_range |-> page_range, combined |-> combined,
                      src |-> r.src, total |-> r.total, targets |-> r.targets,
                      outputs |-> r.outputs, wrote |-> r.files # files,
                      again |-> SameSplit(session_id, filename, pages, page_range,
                                          combined),
                      same_outputs |-> SameSplit(session_id, filename, pages,
                                                 page_range, combined)
                                       /\ resp.outputs = r.outputs,
                      grew |-> DOMAIN r.files # DOMAIN files,
                      clobbered |-> {l \in DOMAIN files \cap DOMAIN r.files :
                                       r.files[l].pages # files[l].pages}]

\* POST /session/{session_id}/merge
MergePdfsReq(session_id, bearer, basic, filenames, out_name, t) ==
  \E a \in {Auth(session_id, bearer, basic)} :
  /\ SESSIONS' = a.sessions
  /\ UNCHANGED <<tokens, now, inflight>>
  /\ IF ~a.ok THEN Denied("merge", session_id, a)
     ELSE IF ~GetKit(dirs, files, session_id).ok
     THEN KitRaised("merge", session_id)
     ELSE \E base \in {GetKitBase(session_id)} :
          \E D \in {SetupPaths(dirs, base)} :
          \E r \in {MergePdfs(D, files, base, filenames, out_name, t)} :
          /\ dirs' = D
          /\ files' = r.files
          /\ clock' = t
          /\ resp' = [op |-> "merge", sid |-> session_id,
                      status |-> IF r.ok THEN 200 ELSE 500, admitted |-> TRUE,
                      err |-> r.err, filenames |-> filenames, out_name |-> out_name,
                      out |-> r.out]

\* GET /session/{session_id}/download without a name: the zip of the outputs
DownloadAll(session_id, bearer, basic, t) ==
  \E a \in {Auth(session_id, bearer, basic)} :
  /\ SESSIONS' = a.sessions
  /\ UNCHANGED <<tokens, now, inflight>>
  /\ IF ~a.ok THEN Denied("zip", session_id, a)
     ELSE IF ~GetKit(dirs, files, session_id).ok
     THEN KitRaised("zip", session_id)
     ELSE \E base \in {GetKitBase(session_id)} :
          \E D \in {SetupPaths(dirs, base)} :
          \E target_dir \in {ZipTarget(D, files, base)} :
          \E zip_path \in {Append(base, ZipName)} :
          /\ dirs' = D
          /\ files' = Write(files, zip_path, ZipFile(D, files, target_dir, t))
          /\ clock' = t
          /\ resp' = [op |-> "zip", sid |-> session_id, status |-> 200,
                      admitted |-> TRUE, target_dir |-> target_dir,
                      zip_path |-> zip_path]

NoteListed == 5  \* paths the X-Download-Note header lists: rels[:5]

\* p.resolve().relative_to(base)
RelativeTo(base, l) == SubSeq(l, Len(base) + 1, Len(l))

\* the X-Download-Note header: absent unless there are several matches; the
\* first NoteListed of all the matches in the order rglob listed them, which
\* the file system decides, and " ..." when there are more matches than that
DownloadNote(base, all_matches) ==
  IF Cardinality(all_matches) <= 1
  THEN {[present |-> FALSE, listed |-> {}, more |-> FALSE]}
  ELSE {[present |-> TRUE, listed |-> {RelativeTo(base, l) : l \in S},
         more |-> Cardinality(all_matches) > NoteListed] :
          S \in {X \in SUBSET all_matches :
                   Cardinality(X) = Min(NoteListed, Cardinality(all_matches))}}

\* GET /session/{session_id}/download?name=<name>
DownloadByName(session_id, bearer, basic, name) ==
  \E a \in {Auth(session_id, bearer, basic)} :
  /\ SESSIONS' = a.sessions
  /\ UNCHANGED <<tokens, now, inflight>>
  /\ IF ~a.ok THEN Denied("download", session_id, a)
     ELSE IF ~GetKit(dirs, files, session_id).ok
     THEN KitRaised("download", session_id)
     ELSE \E base \in {GetKitBase(session_id)} :
          \E candidates \in {FindByBasename(files, base, name)} :
          /\ dirs' = SetupPaths(dirs, base)
          /\ UNCHANGED <<files, clock>>
          /\ IF candidates = {}
             THEN resp' = [op |-> "download", sid |-> session_id, status |-> 404,
                           admitted |-> TRUE, name |-> name]
             ELSE \E best \in PickBestMatch(files, base, candidates) :
                  \E note \in DownloadNote(base, candidates) :
                  resp' = [op |-> "download", sid |-> session_id, status |-> 200,
                           admitted |-> TRUE, name |-> name, best |-> best,
                           all_matches |-> candidates, note |-> note]

-----------------------------------------------------------------------------
(* Requests in flight. A handler is a coroutine of the one event loop: it   *)
(* runs without interruption up to its await. The call it hands to the      *)
(* executor runs on a worker thread, whose steps interleave with the event  *)
(* loop and with the other worker threads. A file is written the way the    *)
(* operating system writes it: open("wb") truncates the file, every write   *)
(* lands at the offset of the descriptor that issues it.                    *)

MaxRequests == 3   \* requests in flight or answered that the model follows
max_workers == 2   \* os.cpu_count() of the host
ZipChunks == 2     \* chunks the archive is streamed in

ReqIds == 1..MaxRequests
\* the id of the next request
FreshId == Cardinality(DOMAIN tasks) + 1

\* the calls a worker thread is executing
Executing(T) == {id \in DOMAIN T : T[id].pc \in {"open", "write"}}

\* a request handed to the executor: the call and the thread's position in
\* it; overlapped tells that it was taken in while another call was executing
Task(op, session_id, call) ==
  [op |-> op, sid |-> session_id, call |-> call, pc |-> "queued",
   outs |-> <<>>, contents |-> <<>>, k |-> 0, j |-> 0, fd |-> NoLoc,
   attached |-> FALSE, status |-> 0, err |-> "none", intact |-> FALSE,
   overlapped |-> Executing(tasks) # {}]

\* an executor that starts a thread for every call
AlwaysFree(T) == TRUE

\* ThreadPoolExecutor(max_workers): a call is taken up only by one of the
\* max_workers threads, when it is not executing another call
FreeWorker(T) == Cardinality(Executing(T)) < max_workers

\* the function raised: the handler's except turns it into a 500
Raised(T, err) == [T EXCEPT !.pc = "failed", !.status = 500, !.err = err]

\* every output of the call is on disk and holds what the call wrote to it
Intact(D, F, T) ==
  \A i \in 1..Len(T.outs) :
    /\ Locate(D, T.outs[i]) \in DOMAIN F
    /\ F[Locate(D, T.outs[i])].pages = T.contents[i]

\* the function returned: the handler answers 200 with the paths
Returned(D, F, T) ==
  [T EXCEPT !.pc = "done", !.status = 200, !.intact = Intact(D, F, T)]

\* POST /session/{session_id}/split-pages up to its await: the dependency,
\* get_kit, and kit.split_pages handed to the executor
SplitPagesSubmit(id, session_id, bearer, basic, filename, pages, page_range, combined) ==
  \E a \in {Auth(session_id, bearer, basic)} :
  /\ id \notin DOMAIN tasks
  /\ SESSIONS' = a.sessions
  /\ UNCHANGED <<tokens, now>>
  /\ IF ~a.ok THEN Denied("split", session_id, a) /\ UNCHANGED inflight
     ELSE IF ~GetKit(dirs, files, session_id).ok
     THEN KitRaised("split", session_id) /\ UNCHANGED inflight
     ELSE /\ dirs' = SetupPaths(dirs, GetKitBase(session_id))
          /\ UNCHANGED <<files, clock, resp>>
          /\ tasks' = tasks @@ (id :> Task("split", session_id,
                        [filename |-> filename, pages |-> pages,
                         page_range |-> page_range, combined |-> combined]))
          /\ work_queue' = Append(work_queue, id)

\* POST /session/{session_id}/merge up to its await
MergePdfsSubmit(id, session_id, bearer, basic, filenames, out_name) ==
  \E a \in {Auth(session_id, bearer, basic)} :
  /\ id \notin DOMAIN tasks
  /\ SESSIONS' = a.sessions
  /\ UNCHANGED <<tokens, now>>
  /\ IF ~a.ok THEN Denied("merge", session_id, a) /\ UNCHANGED inflight
     ELSE IF ~GetKit(dirs, files, session_id).ok
     THEN KitRaised("merge", session_id) /\ UNCHANGED inflight
     ELSE /\ dirs' = SetupPaths(dirs, GetKitBase(session_id))
          /\ UNCHANGED <<files, clock, resp>>
          /\ tasks' = tasks @@ (id :> Task("merge", session_id,
                        [filenames |-> filenames, out_name |-> out_name]))
          /\ work_queue' = Append(work_queue, id)

\* split_pages from its first line to the first file it opens: the source
\* resolved and read, the targets built, the split directory made, and the
\* pages of every output chosen
SplitStart(D, F, T) ==
  LET base == GetKitBase(T.sid)
      r == SplitPages(D, F, base, T.call.filename, T.call.pages, T.call.page_range,
                      T.call.combined, 0)
  IN IF ~r.ok THEN Raised(T, r.err)
     ELSE IF r.outputs = <<>> THEN Returned(D, F, T)
     ELSE [T EXCEPT !.pc = "open", !.k = 1,
                    !.outs = [i \in 1..Len(r.outputs) |-> AbsPath(r.outputs[i])],
                    !.contents = [i \in 1..Len(r.outputs) |-> r.files[r.outputs[i]].pages]]

\* merge_pdfs up to out.open: every name resolved and appended to the writer
MergeStart(D, F, T) ==
  LET base == GetKitBase(T.sid)
      w == AppendAll(D, F, InputDir(base), T.call.filenames, <<>>)
  IN IF ~w.ok THEN Raised(T, w.err)
     ELSE [T EXCEPT !.pc = "open", !.k = 1,
                    !.outs = <<Join(AbsPath(MergeOut(base)), T.call.out_name)>>,
                    !.contents = <<w.pages>>]

\* out_dir.mkdir(parents=True, exist_ok=True) of split_pages, reached once the
\* targets are built
SplitMkdir(D, T, started) ==
  IF T.op = "split" /\ (started.pc # "failed" \/ started.err = "IndexError")
  THEN Mkdir(D, SplitOut(GetKitBase(T.sid))) ELSE D

\* a worker thread takes the call at the head of the queue and runs it up to
\* the first file it opens
Start(id) ==
  /\ work_queue # <<>> /\ Head(work_queue) = id
  /\ FreeWorker(tasks)
  /\ work_queue' = Tail(work_queue)
  /\ \E started \in {IF tasks[id].op = "split" THEN SplitStart(dirs, files, tasks[id])
                     ELSE MergeStart(dirs, files, tasks[id])} :
       /\ tasks' = [tasks EXCEPT ![id] = started]
       /\ dirs' = SplitMkdir(dirs, tasks[id], started)
  /\ UNCHANGED <<files, clock, SESSIONS, tokens, now, resp>>

\* the bytes of a file no write has reached yet
Hole == <<"", 0>>

\* a write of one page at offset i of a file holding `pages`
PutAt(pages, i, page) ==
  [n \in 1..(IF i > Len(pages) THEN i ELSE Len(pages)) |->
     IF n = i THEN page ELSE IF n <= Len(pages) THEN pages[n] ELSE Hole]

\* the file is complete: it is closed, and the call goes on to its next
\* output or returns
Close(D, F, T) ==
  IF T.j < Len(T.contents[T.k]) THEN T
  ELSE IF T.k < Len(T.outs) THEN [T EXCEPT !.pc = "open", !.k = T.k + 1, !.j = 0]
  ELSE Returned(D, F, T)

\* out.open("wb"): the file is created or truncated
Open(id) ==
  /\ id \in DOMAIN tasks /\ tasks[id].pc = "open"
  /\ \E T \in {tasks[id]} : \E loc \in {Locate(dirs, T.outs[T.k])} :
       IF loc = NoLoc \/ Parent(loc) \notin dirs
       THEN /\ tasks' = [tasks EXCEPT ![id] = Raised(T, "FileNotFoundError")]
            /\ UNCHANGED files
       ELSE IF loc \in dirs
       THEN /\ tasks' = [tasks EXCEPT ![id] = Raised(T, "IsADirectoryError")]
            /\ UNCHANGED files
       ELSE \E F \in {Write(files, loc, PdfFile(clock, <<>>))} :
            /\ files' = F
            /\ tasks' = [tasks EXCEPT ![id] =
                 Close(dirs, F, [T EXCEPT !.pc = "write", !.j = 0, !.fd = loc,
                                          !.attached = TRUE])]
  /\ UNCHANGED <<dirs, clock, SESSIONS, tokens, now, resp, work_queue>>

\* writer.write(f), one page of it: the page lands at the descriptor's offset
\* in the file the descriptor was opened on
WritePage(id) ==
  /\ id \in DOMAIN tasks /\ tasks[id].pc = "write"
  /\ \E T \in {tasks[id]} :
     \E F \in {IF T.attached /\ T.fd \in DOMAIN files
               THEN Write(files, T.fd,
                      PdfFile(clock, PutAt(files[T.fd].pages, T.j + 1,
                                           T.contents[T.k][T.j + 1])))
               ELSE files} :
       /\ files' = F
       /\ tasks' = [tasks EXCEPT ![id] = Close(dirs, F, [T EXCEPT !.j = T.j + 1])]
  /\ UNCHANGED <<dirs, clock, SESSIONS, tokens, now, resp, work_queue>>

\* GET /session/{session_id}/download without a name, up to the FileResponse
\* it returns: the archive is written, nothing of it is sent yet
DownloadAllBegin(id, session_id, bearer, basic, t) ==
  \E a \in {Auth(session_id, bearer, basic)} :
  /\ id \notin DOMAIN tasks
  /\ SESSIONS' = a.sessions
  /\ UNCHANGED <<tokens, now, work_queue>>
  /\ IF ~a.ok THEN Denied("zip", session_id, a) /\ UNCHANGED tasks
     ELSE IF ~GetKit(dirs, files, session_id).ok
     THEN KitRaised("zip", session_id) /\ UNCHANGED tasks
     ELSE \E base \in {GetKitBase(session_id)} :
          \E D \in {SetupPaths(dirs, base)} :
          \E target_dir \in {ZipTarget(D, files, base)} :
          \E zip_path \in {Append(base, ZipName)} :
          /\ dirs' = D
          /\ files' = Write(files, zip_path, ZipFile(D, files, target_dir, t))
          /\ clock' = t
          /\ UNCHANGED resp
          /\ tasks' = tasks @@ (id :>
               [op |-> "zip", sid |-> session_id, pc |-> "stream", fd |-> zip_path,
                made |-> ZipFile(D, files, target_dir, t), got |-> <<>>,
                status |-> 200])

\* FileResponse sends the file at zip_path chunk by chunk, each chunk read
\* from the file as it is when the chunk is due
StreamChunk(id) ==
  /\ id \in DOMAIN tasks /\ tasks[id].pc = "stream"
  /\ tasks[id].fd \in DOMAIN files
  /\ \E got \in {Append(tasks[id].got,
                        [of |-> files[tasks[id].fd], part |-> Len(tasks[id].got) + 1])} :
       tasks' = [tasks EXCEPT ![id].got = got,
                              ![id].pc = IF Len(got) = ZipChunks THEN "done" ELSE "stream"]
  /\ UNCHANGED <<dirs, files, clock, SESSIONS, tokens, now, resp, work_queue>>

\* auth.extend_session
ExtendSession(session_id, basic) ==
  LET b == VerifyBasic(basic) IN
  /\ UNCHANGED <<dirs, files, clock, now, inflight>>
  /\ IF ~b.ok
     THEN /\ resp' = [op |-> "extend", sid |-> session_id, status |-> 401,
                      admitted |-> FALSE]
          /\ UNCHANGED <<SESSIONS, tokens>>
     ELSE IF session_id \notin DOMAIN SESSIONS
     THEN /\ resp' = [op |-> "extend", sid |-> session_id, status |-> 404,
                      admitted |-> FALSE]
          /\ UNCHANGED <<SESSIONS, tokens>>
     ELSE IF SESSIONS[session_id].client_id # b.client_id
     THEN /\ resp' = [op |-> "extend", sid |-> session_id, status |-> 403,
                      admitted |-> FALSE]
          /\ UNCHANGED <<SESSIONS, tokens>>
     ELSE /\ SESSIONS' = [SESSIONS EXCEPT ![session_id].expires_at = BumpExpiry(now)]
          /\ tokens' = tokens \cup {CreateJwt(b.client_id, session_id, now)}
          /\ resp' = [op |-> "extend", sid |-> session_id, status |-> 200,
                      admitted |-> TRUE]

-----------------------------------------------------------------------------
(* The state after start-up: the server's own directory and file, no       *)
(* session, no workspace.                                                   *)

OtherFile(t) == [mtime |-> t, kind |-> "other", pages |-> <<>>, entries |-> {}]
MainPy == Append(Cwd, <<"main", ".py">>)

Init ==
  /\ dirs = {<<>>, Cwd, <<N("tmp")>>}
  /\ files = (MainPy :> OtherFile(0))
  /\ clock = 0
  /\ SESSIONS = [s \in {} |-> 0]
  /\ tokens = {}
  /\ now = 0
  /\ resp = [op |-> "none", sid |-> "", status |-> 0, admitted |-> FALSE]
  /\ tasks = [id \in {} |-> 0]
  /\ work_queue = <<>>

-----------------------------------------------------------------------------
(* What the clients of the model send *)

Demo == Basic("demo", "demo")
\* the bearer tokens a client holds for a session
BearersOf(sid) == {Bearer(tok) : tok \in {k \in tokens : k.sid = sid}}

\* a PDF of n pages; page i of document d is <<d, i>>
PdfDoc(d, n) == [i \in 1..n |-> <<d, i>>]
Rel(parts) == Path(FALSE, parts)
AsPdf(filename, pages) == UploadFile("application/pdf", filename, pages)

\* the file system times a handler may run at
Stamps == {t \in {clock, clock + 1} : t <= MaxClock}

-----------------------------------------------------------------------------
(* Resolution: sessions, uploads, and operations naming their source *)

ResolveUploads ==
  {AsPdf(Rel(<<Pdf("a")>>), PdfDoc("a", 1)),
   AsPdf(Rel(<<Pdf("b")>>), PdfDoc("a", 1)),
   AsPdf(Rel(<<N("sub"), Pdf("a")>>), PdfDoc("a", 1))}

Selectors ==
  {None,
   Rel(<<Pdf("a")>>),
   Rel(<<Pdf("b")>>),
   Rel(<<N("sub"), Pdf("a")>>),
   Rel(<<N("zzz"), Pdf("b")>>),
   Rel(<<<<"main", ".py">>>>)}
  \cup {AbsPath(Append(InputDir(BaseDir(s)), Pdf("a"))) : s \in SessionIds}
  \cup {Rel(<<DotDot, DotDot, N(s), N("input"), Pdf("a")>>) : s \in SessionIds}

NextResolve ==
  \/ Handshake(Demo)
  \/ \E sid \in DOMAIN SESSIONS : \E bearer \in BearersOf(sid), f \in ResolveUploads :
       /\ Cardinality(DOMAIN files) <= MaxFiles
       /\ UploadFiles(sid, bearer, NoBasic, <<f>>, clock)
  \/ \E sid \in DOMAIN SESSIONS : \E bearer \in BearersOf(sid), sel \in Selectors :
       SplitPagesReq(sid, bearer, NoBasic, sel, NoPages, NoRange, TRUE, clock)

SpecResolve == Init /\ [][NextResolve]_vars

-----------------------------------------------------------------------------
(* Splitting: a document of 1..MaxPages pages and every selection of pages *)

\* str(n), as a client writes a number into page_range
RECURSIVE FmtNat(_)
FmtNat(n) == IF n < 10 THEN <<Digits[n + 1]>>
             ELSE FmtNat(n \div 10) \o <<Digits[(n % 10) + 1]>>
Fmt(n) == IF n < 0 THEN <<"-">> \o FmtNat(0 - n) ELSE FmtNat(n)
FmtRange(a, b) == Fmt(a) \o <<"-">> \o Fmt(b)

RangeVals == (0 - 1)..(MaxPages + 2)
PageVals == 0..(MaxPages + 1)

RangeInputs ==
  {RangeStr(FmtRange(a, b)) : a, b \in RangeVals}
  \cup {RangeStr(<<"2">>), RangeStr(<<"1", " ", "-", " ", "2">>),
        RangeStr(<<"x", "-", "2">>), RangeStr(<<"1", "-">>),
        RangeStr(<<"1", "-", "1", "0">>), RangeStr(<<"+", "1", "-", "2">>)}

PageLists == UNION {[1..n -> PageVals] : n \in 1..MaxListLen}

\* <<pages, page_range>> of a request
SplitSelections ==
  {<<NoPages, NoRange>>}
  \cup {<<NoPages, r>> : r \in RangeInputs}
  \cup {<<PageList(l), NoRange>> : l \in PageLists}
  \cup {<<PageList(<<1>>), RangeStr(FmtRange(2, 3))>>,
        <<PageList(<<2>>), RangeStr(<<>>)>>,
        <<PageList(<<>>), NoRange>>}

\* no artifact lies in the session's split directory
NoSplitYet(sid) == \A l \in DOMAIN files : ~InParents(SplitOut(BaseDir(sid)), l)

\* one client: one session, one document, and the first split after each
\* upload (a rejected split leaves the disk as the upload left it, so a split
\* that follows it meets the state this one meets)
NextSplit ==
  \/ DOMAIN SESSIONS = {} /\ Handshake(Demo)
  \/ \E sid \in DOMAIN SESSIONS : \E bearer \in BearersOf(sid), n \in 1..MaxPages :
       /\ NoSplitYet(sid)
       /\ UploadFiles(sid, bearer, NoBasic, <<AsPdf(Rel(<<Pdf("a")>>), PdfDoc("a", n))>>,
                      clock)
  \/ \E sid \in DOMAIN SESSIONS : \E bearer \in BearersOf(sid), sel \in SplitSelections,
        combined \in BOOLEAN :
       /\ NoSplitYet(sid)
       /\ resp.op = "upload"
       /\ SplitPagesReq(sid, bearer, NoBasic, None, sel[1], sel[2], combined, clock)

SpecSplit == Init /\ [][NextSplit]_vars

-----------------------------------------------------------------------------
(* The session lifecycle: handshakes with and without credentials, time,   *)
(* uploads that create the workspace, and cleanups under every credential   *)

WrongPassword == Basic("demo", "wrong")
BasicInputs == {NoBasic, Demo, WrongPassword}

\* what a client may send to authenticate: any token issued so far, a token
\* it signed itself, or Basic credentials
Credentials(sid) ==
  {<<Bearer(tok), NoBasic>> : tok \in tokens}
  \cup {<<Forged("demo", sid, MaxNow + ACCESS_TOKEN_EXPIRE_MINUTES), NoBasic>>}
  \cup {<<NoBearer, b>> : b \in BasicInputs}

NextSession ==
  \/ \E basic \in BasicInputs : Handshake(basic)
  \/ Tick
  \/ \E sid \in SessionIds : \E c \in Credentials(sid) :
       CleanupSession(sid, c[1], c[2])
  \/ \E sid \in DOMAIN SESSIONS : \E bearer \in BearersOf(sid) :
       UploadFiles(sid, bearer, NoBasic, <<AsPdf(Rel(<<Pdf("a")>>), PdfDoc("a", 1))>>,
                   clock)

SpecSession == Init /\ [][NextSession]_vars

-----------------------------------------------------------------------------
(* Retrieval: one session whose files share a basename inside and outside  *)
(* output/, written at different times, downloaded by name and as a zip     *)

DownloadUploads ==
  {AsPdf(Rel(<<Pdf("a")>>), PdfDoc("a", 1)),
   AsPdf(Rel(<<N("sub"), Pdf("a")>>), PdfDoc("a", 1))}
\* out_name of a merge: a.pdf lands in output/merged, ../splits/a.pdf in
\* output/splits
MergeNames == {Rel(<<Pdf("a")>>), Rel(<<DotDot, N("splits"), Pdf("a")>>)}

NextDownload ==
  \/ DOMAIN SESSIONS = {} /\ Handshake(Demo)
  \/ \E sid \in DOMAIN SESSIONS : \E bearer \in BearersOf(sid), f \in DownloadUploads,
        t \in Stamps :
       UploadFiles(sid, bearer, NoBasic, <<f>>, t)
  \/ \E sid \in DOMAIN SESSIONS : \E bearer \in BearersOf(sid), out_name \in MergeNames,
        t \in Stamps :
       MergePdfsReq(sid, bearer, NoBasic, <<Rel(<<Pdf("a")>>)>>, out_name, t)
  \/ \E sid \in DOMAIN SESSIONS : \E bearer \in BearersOf(sid),
        name \in {Pdf("a"), Pdf("b")} :
       DownloadByName(sid, bearer, NoBasic, name)
  \/ \E sid \in DOMAIN SESSIONS : \E bearer \in BearersOf(sid) :
       DownloadAll(sid, bearer, NoBasic, clock)

SpecDownload == Init /\ [][NextDownload]_vars

-----------------------------------------------------------------------------
(* Two downloads of everything: one session whose output changes between   *)
(* the requests, each archive written at once and sent chunk by chunk       *)

NextZip ==
  \/ DOMAIN SESSIONS = {} /\ Handshake(Demo)
  \/ \E sid \in DOMAIN SESSIONS : \E bearer \in BearersOf(sid) :
       /\ NoSplitYet(sid)
       /\ UploadFiles(sid, bearer, NoBasic, <<AsPdf(Rel(<<Pdf("a")>>), PdfDoc("a", 1))>>,
                      clock)
  \/ \E sid \in DOMAIN SESSIONS : \E bearer \in BearersOf(sid), combined \in BOOLEAN :
       SplitPagesReq(sid, bearer, NoBasic, None, NoPages, NoRange, combined, clock)
  \/ \E sid \in DOMAIN SESSIONS : \E bearer \in BearersOf(sid) :
       /\ FreshId \in ReqIds
       /\ DownloadAllBegin(FreshId, sid, bearer, NoBasic, clock)
  \/ \E id \in ReqIds : StreamChunk(id)

SpecZip == Init /\ [][NextZip]_vars

-----------------------------------------------------------------------------
(* Concurrent writers: one session holding two documents of the same stem,  *)
(* input/a.pdf and input/sub/a.pdf, whose splits carry the same names       *)

WriterUploads ==
  {AsPdf(Rel(<<Pdf("a")>>), PdfDoc("a", 2)),
   AsPdf(Rel(<<N("sub"), Pdf("a")>>), PdfDoc("b", 2))}
WriterSelectors == {Rel(<<Pdf("a")>>), Rel(<<N("sub"), Pdf("a")>>)}

NextWriters ==
  \/ DOMAIN SESSIONS = {} /\ Handshake(Demo)
  \/ \E sid \in DOMAIN SESSIONS : \E bearer \in BearersOf(sid), f \in WriterUploads :
       /\ DOMAIN tasks = {}
       /\ UploadFiles(sid, bearer, NoBasic, <<f>>, clock)
  \/ \E sid \in DOMAIN SESSIONS : \E bearer \in BearersOf(sid), sel \in WriterSelectors,
        combined \in BOOLEAN :
       /\ FreshId \in ReqIds
       /\ SplitPagesSubmit(FreshId, sid, bearer, NoBasic, sel, NoPages, NoRange, combined)
  \/ \E id \in ReqIds : Start(id)
  \/ \E id \in ReqIds : Open(id)
  \/ \E id \in ReqIds : WritePage(id)

SpecWriters == Init /\ [][NextWriters]_vars

-----------------------------------------------------------------------------
(* Destroy against an operation in flight: one session, one document, one   *)
(* split or merge at a time on the executor, and cleanups at any moment     *)

\* no call is waiting or executing
Idle == work_queue = <<>> /\ \A id \in DOMAIN tasks : tasks[id].pc \in {"done", "failed"}

NextDestroy ==
  \/ DOMAIN SESSIONS = {} /\ Handshake(Demo)
  \/ \E sid \in DOMAIN SESSIONS : \E bearer \in BearersOf(sid) :
       /\ Idle
       /\ UploadFiles(sid, bearer, NoBasic, <<AsPdf(Rel(<<Pdf("a")>>), PdfDoc("a", 2))>>,
                      clock)
  \/ \E sid \in DOMAIN SESSIONS : \E bearer \in BearersOf(sid), combined \in BOOLEAN :
       /\ Idle /\ FreshId \in ReqIds
       /\ SplitPagesSubmit(FreshId, sid, bearer, NoBasic, None, NoPages, NoRange, combined)
  \/ \E sid \in DOMAIN SESSIONS : \E bearer \in BearersOf(sid) :
       /\ Idle /\ FreshId \in ReqIds
       /\ MergePdfsSubmit(FreshId, sid, bearer, NoBasic, <<Rel(<<Pdf("a")>>)>>,
                          Rel(<<Pdf("merged")>>))
  \/ \E id \in ReqIds : Start(id)
  \/ \E id \in ReqIds : Open(id)
  \/ \E id \in ReqIds : WritePage(id)
  \/ \E sid \in DOMAIN SESSIONS : \E bearer \in BearersOf(sid) :
       CleanupSession(sid, bearer, NoBasic)

SpecDestroy == Init /\ [][NextDestroy]_vars

-----------------------------------------------------------------------------
(* The registry under concurrent requests: handshakes, extensions, and      *)
(* uploads and splits admitted through the session store, while a worker    *)
(* thread runs the split submitted before                                   *)

NextRegistry ==
  \/ \E basic \in {NoBasic, Demo} : Handshake(basic)
  \/ \E sid \in SessionIds, basic \in BasicInputs : ExtendSession(sid, basic)
  \/ Tick
  \/ \E sid \in SessionIds :
       /\ DOMAIN tasks = {}
       /\ UploadFiles(sid, NoBearer, Demo, <<AsPdf(Rel(<<Pdf("a")>>), PdfDoc("a", 1))>>,
                      clock)
  \/ \E sid \in SessionIds :
       /\ DOMAIN tasks = {}
       /\ SplitPagesSubmit(FreshId, sid, NoBearer, Demo, None, NoPages, NoRange, TRUE)
  \/ \E id \in ReqIds : Start(id)
  \/ \E id \in ReqIds : Open(id)
  \/ \E id \in ReqIds : WritePage(id)

SpecRegistry == Init /\ [][NextRegistry]_vars

-----------------------------------------------------------------------------
(* The worker pool: more operations submitted than the executor has threads *)

NextPool ==
  \/ DOMAIN SESSIONS = {} /\ Handshake(Demo)
  \/ \E sid \in DOMAIN SESSIONS : \E bearer \in BearersOf(sid) :
       /\ DOMAIN tasks = {}
       /\ UploadFiles(sid, bearer, NoBasic, <<AsPdf(Rel(<<Pdf("a")>>), PdfDoc("a", 1))>>,
                      clock)
  \/ \E sid \in DOMAIN SESSIONS : \E bearer \in BearersOf(sid), combined \in BOOLEAN :
       /\ FreshId \in ReqIds
       /\ SplitPagesSubmit(FreshId, sid, bearer, NoBasic, None, NoPages, NoRange, combined)
  \/ \E sid \in DOMAIN SESSIONS : \E bearer \in BearersOf(sid) :
       /\ FreshId \in ReqIds
       /\ MergePdfsSubmit(FreshId, sid, bearer, NoBasic, <<Rel(<<Pdf("a")>>)>>,
                          Rel(<<Pdf("merged")>>))
  \/ \E id \in ReqIds : Start(id)
  \/ \E id \in ReqIds : Open(id)
  \/ \E id \in ReqIds : WritePage(id)

SpecPool == Init /\ [][NextPool]_vars

-----------------------------------------------------------------------------
(* Naming: one document of up to MaxDocPages pages, split again and again   *)
(* with page sets below and above the ten pages a name lists                *)

NamingSizes == {4, 12, MaxDocPages}

NamingLists ==
  {<<1>>, <<1, 2>>, <<2, 3>>, <<2, 7, 11, 15>>, <<15, 11, 7, 2, 2>>, <<40>>,
   Range(1, 10), Range(1, 11), Range(1, 10) \o <<12>>, Range(1, 12)}

NamingSelections ==
  {<<NoPages, NoRange>>, <<NoPages, RangeStr(FmtRange(1, 3))>>,
   <<NoPages, RangeStr(FmtRange(2, 3))>>}
  \cup {<<PageList(l), NoRange>> : l \in NamingLists}

\* what lies in the session's split directory
SplitArtifacts(sid) == {l \in DOMAIN files : InParents(SplitOut(BaseDir(sid)), l)}

\* a split follows the upload, or a split whose outputs are all that the
\* split directory holds
NextNaming ==
  \/ DOMAIN SESSIONS = {} /\ Handshake(Demo)
  \/ \E sid \in DOMAIN SESSIONS : \E bearer \in BearersOf(sid), n \in NamingSizes :
       /\ NoSplitYet(sid)
       /\ UploadFiles(sid, bearer, NoBasic, <<AsPdf(Rel(<<Pdf("a")>>), PdfDoc("a", n))>>,
                      clock)
  \/ \E sid \in DOMAIN SESSIONS : \E bearer \in BearersOf(sid), sel \in NamingSelections,
        combined \in BOOLEAN :
       /\ \/ resp.op = "upload"
          \/ /\ resp.op = "split"
             /\ SplitArtifacts(sid) \subseteq {resp.outputs[i] : i \in 1..Len(resp.outputs)}
       /\ SplitPagesReq(sid, bearer, NoBasic, None, sel[1], sel[2], combined, clock)

SpecNaming == Init /\ [][NextNaming]_vars

-----------------------------------------------------------------------------
(* Round trip: documents uploaded, split into pages, and the files a split  *)
(* returned merged again in the order returned                              *)

RoundTripUploads ==
  {AsPdf(Rel(<<Pdf("a")>>), PdfDoc("a", n)) : n \in 1..MaxPages}
  \cup {AsPdf(Rel(<<Pdf("b")>>), PdfDoc("b", 2)),
        AsPdf(Rel(<<Pdf("a_p0001")>>), PdfDoc("c", 1))}

RoundTripSelections == {NoPages, PageList(<<2, 1>>), PageList(<<1>>)}

RoundTripSources == {None, Rel(<<Pdf("a")>>), Rel(<<Pdf("b")>>)}

RoundTripOutNames == {Rel(<<Pdf("merged")>>), Rel(<<Pdf("a")>>)}

\* the strings of output_files, as the client sends them back
Returned_files == [i \in 1..Len(resp.outputs) |-> AbsPath(resp.outputs[i])]

NextRoundTrip ==
  \/ DOMAIN SESSIONS = {} /\ Handshake(Demo)
  \/ \E sid \in DOMAIN SESSIONS : \E bearer \in BearersOf(sid), f \in RoundTripUploads :
       /\ Cardinality(DOMAIN files) <= MaxFiles
       /\ UploadFiles(sid, bearer, NoBasic, <<f>>, clock)
  \/ \E sid \in DOMAIN SESSIONS : \E bearer \in BearersOf(sid),
        src \in RoundTripSources, sel \in RoundTripSelections :
       /\ resp.op \in {"upload", "merge"}
       /\ SplitPagesReq(sid, bearer, NoBasic, src, sel, NoRange, FALSE, clock)
  \/ \E sid \in DOMAIN SESSIONS : \E bearer \in BearersOf(sid),
        out_name \in RoundTripOutNames :
       /\ resp.op = "split" /\ resp.admitted /\ resp.status = 200
       /\ resp.sid = sid
       /\ MergePdfsReq(sid, bearer, NoBasic, Returned_files, out_name, clock)

SpecRoundTrip == Init /\ [][NextRoundTrip]_vars

-----------------------------------------------------------------------------
(* Merge: uploaded documents merged under the names a caller can send       *)

MergeUploads ==
  {AsPdf(Rel(<<Pdf("a")>>), PdfDoc("a", n)) : n \in 1..MaxPages}
  \cup {AsPdf(Rel(<<Pdf("b")>>), PdfDoc("b", 2))}

\* the names of the documents, and one that no upload carries
MergeInputs == {Rel(<<Pdf("a")>>), Rel(<<Pdf("b")>>), Rel(<<Pdf("zz")>>)}

\* the lists merged: one name, two in either order, a name twice, and a
\* missing name before and after one that resolves
MergeLists ==
  {<<n>> : n \in MergeInputs}
  \cup {<<Rel(<<Pdf("a")>>), Rel(<<Pdf("b")>>)>>, <<Rel(<<Pdf("b")>>), Rel(<<Pdf("a")>>)>>,
        <<Rel(<<Pdf("a")>>), Rel(<<Pdf("a")>>)>>, <<Rel(<<Pdf("a")>>), Rel(<<Pdf("zz")>>)>>,
        <<Rel(<<Pdf("zz")>>), Rel(<<Pdf("b")>>)>>}

\* out_name: the default, a plain name, and a name that climbs a directory
MergeOutNames ==
  {Rel(<<Pdf("merged")>>), Rel(<<Pdf("final")>>),
   Rel(<<DotDot, N("splits"), Pdf("final")>>)}

NextMerge ==
  \/ DOMAIN SESSIONS = {} /\ Handshake(Demo)
  \/ \E sid \in DOMAIN SESSIONS : \E bearer \in BearersOf(sid), f \in MergeUploads :
       /\ Cardinality(DOMAIN files) <= MaxFiles
       /\ UploadFiles(sid, bearer, NoBasic, <<f>>, clock)
  \/ \E sid \in DOMAIN SESSIONS : \E bearer \in BearersOf(sid),
        filenames \in MergeLists, out_name \in MergeOutNames :
       /\ Cardinality(DOMAIN files) < MaxFiles
       /\ MergePdfsReq(sid, bearer, NoBasic, filenames, out_name, clock)

SpecMerge == Init /\ [][NextMerge]_vars

-----------------------------------------------------------------------------
(* The download note: files of one name put in the directories of a        *)
(* session by uploads and merges, and downloaded by that name               *)

NoteUploads ==
  {AsPdf(Rel(<<Pdf("a")>>), PdfDoc("a", 1)),
   AsPdf(Rel(<<N("sub"), Pdf("a")>>), PdfDoc("a", 1))}

NoteOutNames ==
  {Rel(<<Pdf("a")>>), Rel(<<DotDot, N("splits"), Pdf("a")>>),
   Rel(<<DotDot, N("ocr"), Pdf("a")>>), Rel(<<DotDot, N("markdown"), Pdf("a")>>),
   Rel(<<DotDot, DotDot, N("temp"), Pdf("a")>>)}

NextNote ==
  \/ DOMAIN SESSIONS = {} /\ Handshake(Demo)
  \/ \E sid \in DOMAIN SESSIONS : \E bearer \in BearersOf(sid), f \in NoteUploads :
       /\ resp.op # "upload"
       /\ UploadFiles(sid, bearer, NoBasic, <<f>>, clock)
  \/ \E sid \in DOMAIN SESSIONS : \E bearer \in BearersOf(sid), out_name \in NoteOutNames :
       /\ resp.op # "merge"
       /\ MergePdfsReq(sid, bearer, NoBasic, <<Rel(<<Pdf("a")>>)>>, out_name, clock)
  \/ \E sid \in DOMAIN SESSIONS : \E bearer \in BearersOf(sid),
        name \in {Pdf("a"), Pdf("b")} :
       DownloadByName(sid, bearer, NoBasic, name)

SpecNote == Init /\ [][NextNote]_vars

-----------------------------------------------------------------------------
(* Uploads: requests of one or two files, documents and others, told apart  *)
(* by content type and by name                                              *)

UploadKinds ==
  {UploadFile("application/pdf", Rel(<<Pdf("a")>>), PdfDoc("a", 1)),
   UploadFile("application/octet-stream", Rel(<<Pdf("b")>>), PdfDoc("b", 1)),
   UploadFile("application/pdf", Rel(<<<<"d", ".txt">>>>), PdfDoc("d", 1)),
   UploadFile("text/plain", Rel(<<<<"c", ".PDF">>>>), PdfDoc("c", 1)),
   UploadFile("text/plain", Rel(<<<<"notes", ".txt">>>>), PdfDoc("n", 1))}

UploadRequests == UNION {[1..k -> UploadKinds] : k \in 1..2}

NextUpload ==
  \/ DOMAIN SESSIONS = {} /\ Handshake(Demo)
  \/ \E sid \in DOMAIN SESSIONS : \E bearer \in BearersOf(sid),
        upfiles \in UploadRequests :
       /\ Cardinality(DOMAIN files) <= MaxFiles
       /\ UploadFiles(sid, bearer, NoBasic, upfiles, clock)

SpecUpload == Init /\ [][NextUpload]_vars

-----------------------------------------------------------------------------
(* Workspaces: every route of two sessions, cleanups between them, and      *)
(* uploads whose file name climbs out of the input directory                *)

WorkspaceUploads ==
  {AsPdf(Rel(<<Pdf("a")>>), PdfDoc("a", 1))}
  \cup {AsPdf(Rel(<<DotDot, DotDot, N(s)>>), PdfDoc("x", 1)) : s \in SessionIds}

Outputs == {"full", "pages"}

\* the clients go on while the disk holds few files
FewFiles == Cardinality(DOMAIN files) < MaxFiles

NextWorkspace ==
  \/ Handshake(Demo)
  \/ \E sid \in DOMAIN SESSIONS : \E bearer \in BearersOf(sid), f \in WorkspaceUploads :
       FewFiles /\ UploadFiles(sid, bearer, NoBasic, <<f>>, clock)
  \/ \E sid \in DOMAIN SESSIONS : \E bearer \in BearersOf(sid), output \in Outputs :
       FewFiles /\ OcrReq(sid, bearer, NoBasic, None, output, clock)
  \/ \E sid \in DOMAIN SESSIONS : \E bearer \in BearersOf(sid), output \in Outputs :
       FewFiles /\ ToMarkdownReq(sid, bearer, NoBasic, None, output, clock)
  \/ \E sid \in DOMAIN SESSIONS : \E bearer \in BearersOf(sid) :
       FewFiles /\ SplitPagesReq(sid, bearer, NoBasic, None, NoPages, NoRange, FALSE, clock)
  \/ \E sid \in DOMAIN SESSIONS : \E bearer \in BearersOf(sid) :
       FewFiles /\ MergePdfsReq(sid, bearer, NoBasic, <<Rel(<<Pdf("a")>>)>>,
                                Rel(<<Pdf("merged")>>), clock)
  \/ \E sid \in DOMAIN SESSIONS : \E bearer \in BearersOf(sid) :
       DownloadByName(sid, bearer, NoBasic, Pdf("a"))
  \/ \E sid \in DOMAIN SESSIONS : \E bearer \in BearersOf(sid) :
       FewFiles /\ DownloadAll(sid, bearer, NoBasic, clock)
  \/ \E sid \in DOMAIN SESSIONS : \E bearer \in BearersOf(sid) :
       CleanupSession(sid, bearer, NoBasic)

SpecWorkspace == Init /\ [][NextWorkspace]_vars

-----------------------------------------------------------------------------
(* Claims: resolving the source document (SpecResolve) *)

\* the request answered last was a split that the auth dependency admitted
SplitAnswered == resp.op = "split" /\ resp.admitted

\* the *.pdf files directly under the input directory of the session answered
InputPdfFiles ==
  {l \in DOMAIN files : Parent(l) = InputDir(BaseDir(resp.sid)) /\ l[Len(l)][2] = ".pdf"}
\* no directory under input carries the suffix .pdf
NoPdfDirectory ==
  \A l \in dirs : Parent(l) = InputDir(BaseDir(resp.sid)) => l[Len(l)][2] # ".pdf"

CandLiteral == resp.filename
CandInput == Resolve(Join(AbsPath(InputDir(BaseDir(resp.sid))), resp.filename))
CandBasename ==
  Resolve(Join(AbsPath(InputDir(BaseDir(resp.sid))), Rel(<<PathName(resp.filename)>>)))
OnDisk(p) == Exists(dirs, files, p)

\* C2: a present selector resolves to the first of (a) the literal path,
\* (b) input/<selector>, (c) input/<basename> that exists; a later candidate
\* is returned only when every earlier one does not exist, and the not-found
\* error is raised only when none exists.
C2_FirstMatchWins ==
  (SplitAnswered /\ resp.filename.present) =>
    /\ OnDisk(CandLiteral) => resp.src = CandLiteral
    /\ (~OnDisk(CandLiteral) /\ OnDisk(CandInput)) => resp.src = CandInput
    /\ (~OnDisk(CandLiteral) /\ ~OnDisk(CandInput) /\ OnDisk(CandBasename))
         => resp.src = CandBasename
    /\ (OnDisk(CandLiteral) \/ OnDisk(CandInput) \/ OnDisk(CandBasename))
         <=> resp.src.present
    /\ ~resp.src.present => resp.status = 500 /\ resp.err = "FileNotFoundError"

\* input/<selector> and input/<basename> both exist and differ, the literal
\* path does not: input/<selector> is returned
C2_Witness ==
  /\ SplitAnswered /\ resp.filename.present
  /\ ~OnDisk(CandLiteral) /\ OnDisk(CandInput) /\ OnDisk(CandBasename)
  /\ CandInput # CandBasename
  /\ resp.src = CandInput

\* C3: a successful resolution returns a file inside the base directory of
\* the session the operation runs in.
C3_InsideWorkspace ==
  (SplitAnswered /\ resp.src.present) =>
    IsPrefix(BaseDir(resp.sid), Locate(dirs, resp.src))
\* C3, for the splits that went on to read the file and succeeded: the
\* document read lies inside the base directory of the session.
C3_NoOutsideRead ==
  (SplitAnswered /\ resp.status = 200) =>
    IsPrefix(BaseDir(resp.sid), Locate(dirs, resp.src))

-----------------------------------------------------------------------------
(* Claims: the pages a split selects (SpecSplit) *)

\* the split answered last read a document of at least one page
SplitRead == SplitAnswered /\ resp.total >= 1
Ranged(a, b) == resp.page_range = RangeStr(FmtRange(a, b))
HasPage(p) == \E i \in 1..Len(resp.targets) : resp.targets[i] = p
Ascending ==
  \A i, j \in 1..Len(resp.targets) : i < j => resp.targets[i] < resp.targets[j]
SourcePages == files[Locate(dirs, resp.src)].pages
\* the artifacts hold the target pages in order: one file of all of them
\* (combined) or one file each
ArtifactsHoldTargets ==
  IF resp.combined
  THEN /\ Len(resp.outputs) = 1
       /\ files[resp.outputs[1]].pages =
            [i \in 1..Len(resp.targets) |-> SourcePages[resp.targets[i]]]
  ELSE /\ Len(resp.outputs) = Len(resp.targets)
       /\ \A i \in 1..Len(resp.targets) :
            files[resp.outputs[i]].pages = <<SourcePages[resp.targets[i]]>>

\* C4: for a document of N >= 1 pages and a range a-b with 1 <= a <= b, the
\* pages selected are exactly a..min(b, N), ascending, and where that is not
\* empty the artifacts hold them; a range with a > b, a < 1 or b < 1 is
\* rejected with an error and nothing is written.
C4_RangeTargets ==
  SplitRead => \A a, b \in RangeVals : Ranged(a, b) =>
    IF 1 <= a /\ a <= b
    THEN /\ \A p \in (0 - 1)..(MaxPages + 3) :
              HasPage(p) <=> (a <= p /\ p <= b /\ p <= resp.total)
         /\ Ascending
         /\ a <= resp.total => (resp.status = 200 /\ ArtifactsHoldTargets)
    ELSE resp.status = 500 /\ resp.err = "ValueError" /\ ~resp.wrote

\* a range that reaches beyond the document was clamped to its last page
C4_Witness ==
  /\ SplitRead /\ resp.status = 200
  /\ \E a, b \in RangeVals : Ranged(a, b) /\ 1 < a /\ a < resp.total /\ b > resp.total
  /\ Len(resp.targets) >= 2

\* C5: for a non-empty explicit page list (and no range) the targets are the
\* entries within 1..N, without duplicates, ascending; when none is within
\* 1..N the request is rejected with the invalid-selection error (ValueError)
\* and nothing is written.
C5_ListTargets ==
  (SplitRead /\ resp.pages.present /\ resp.pages.list # <<>>
     /\ ~(resp.page_range.present /\ resp.page_range.chars # <<>>)) =>
    LET valid == {resp.pages.list[i] : i \in 1..Len(resp.pages.list)}
                   \cap 1..resp.total
    IN IF valid = {}
       THEN resp.status = 500 /\ resp.err = "ValueError" /\ ~resp.wrote
       ELSE /\ resp.status = 200
            /\ {resp.targets[i] : i \in 1..Len(resp.targets)} = valid
            /\ Ascending
            /\ ArtifactsHoldTargets

\* a list out of order with an entry outside the document gave two targets
C5_Witness ==
  /\ SplitRead /\ resp.status = 200 /\ resp.pages.present
  /\ ~resp.page_range.present
  /\ Len(resp.pages.list) = 2 /\ resp.pages.list[1] > resp.pages.list[2]
  /\ Len(resp.targets) = 2
C5_WitnessRejected ==
  /\ SplitRead /\ resp.status = 500 /\ resp.pages.present
  /\ ~resp.page_range.present /\ resp.pages.list # <<>>

\* C6: a range that lies entirely beyond the document (N < a <= b) is
\* rejected with the invalid-selection error, combined or separate.
C6_BeyondRejected ==
  SplitRead => \A a, b \in RangeVals :
    (Ranged(a, b) /\ 1 <= a /\ a <= b /\ a > resp.total) =>
      (resp.status = 500 /\ resp.err = "ValueError")
\* the same for a separate split alone, and for a combined split alone
C6_BeyondRejectedSeparate == (SplitRead /\ ~resp.combined) => C6_BeyondRejected
C6_BeyondRejectedCombined == (SplitRead /\ resp.combined) => C6_BeyondRejected

-----------------------------------------------------------------------------
(* Claims: destroying a session (SpecSession) *)

CleanupAnswered == resp.op = "cleanup" /\ resp.admitted
\* nothing of the session's base directory is on disk
BaseAbsent(sid) == \A l \in dirs \cup DOMAIN files : ~IsPrefix(BaseDir(sid), l)

\* C7: once a session is destroyed, a lookup of its id in the registry
\* reports it as not found.
C7_DestroyedNotFound ==
  (CleanupAnswered /\ resp.status = 200) => resp.sid \notin DOMAIN SESSIONS

C8_WitnessExisted == CleanupAnswered /\ resp.status = 200 /\ resp.existed
-----------------------------------------------------------------------------
(* Claims: retrieval (SpecDownload) *)

Served == resp.op = "download" /\ resp.admitted /\ resp.status = 200
UnderOutput(l) == InParents(OutputDir(BaseDir(resp.sid)), l)
OutputMatches == {c \in resp.all_matches : UnderOutput(c)}
PreferredPool == IF OutputMatches # {} THEN OutputMatches ELSE resp.all_matches

\* C9: the file served for a name lies under output/ whenever one of the
\* matches does, and within the preferred pool (the matches under output/,
\* or all matches when none is there) no file was modified later than it.
C9_BestMatch ==
  Served =>
    /\ resp.all_matches = {l \in DOMAIN files :
                             InParents(BaseDir(resp.sid), l) /\ l[Len(l)] = resp.name}
    /\ resp.best \in PreferredPool
    /\ OutputMatches # {} => UnderOutput(resp.best)
    /\ \A c \in PreferredPool : files[c].mtime <= files[resp.best].mtime

\* two matches under output/ of different age and a newer one outside it:
\* the newer of the two under output/ is served
C9_Witness ==
  /\ Served
  /\ \E c \in OutputMatches : files[c].mtime < files[resp.best].mtime
  /\ \E c \in resp.all_matches \ OutputMatches : files[c].mtime > files[resp.best].mtime

ZipAnswered == resp.op = "zip" /\ resp.admitted /\ resp.status = 200
FileUnderOutput == \E l \in DOMAIN files : UnderOutput(l)

\* C10: zip-all archives output/ iff it exists and holds at least one file
\* somewhere beneath it, and the workspace root in every other case.
C10_ZipTarget ==
  ZipAnswered =>
    resp.target_dir = (IF FileUnderOutput THEN OutputDir(BaseDir(resp.sid))
                       ELSE BaseDir(resp.sid))

-----------------------------------------------------------------------------
(* Claims: requests that overlap in time *)

ZipSent(id) == id \in DOMAIN tasks /\ tasks[id].op = "zip" /\ tasks[id].pc = "done"

\* C11: every download of everything receives a complete archive that one
\* single zip run produced, whatever other download rewrites the archive
\* while it is sent.
C11_OneZipRun ==
  \A id \in ReqIds : ZipSent(id) =>
    /\ Len(tasks[id].got) = ZipChunks
    /\ \A i \in 1..ZipChunks :
         tasks[id].got[i].part = i /\ tasks[id].got[i].of = tasks[id].got[1].of
\* the same, for the archive the request itself wrote
C11_OwnArchive ==
  \A id \in ReqIds : ZipSent(id) =>
    \A i \in 1..ZipChunks : tasks[id].got[i].of = tasks[id].made

\* every call handed to the executor has returned or raised
AllReturned ==
  work_queue = <<>> /\ \A id \in DOMAIN tasks : tasks[id].pc \in {"done", "failed"}
\* the outputs of the calls that returned: <<request, index of the output>>
Writes ==
  UNION {{<<id, i>> : i \in 1..Len(tasks[id].outs)} :
           id \in {d \in DOMAIN tasks : tasks[d].pc = "done"}}
WriteLoc(w) == Locate(dirs, tasks[w[1]].outs[w[2]])
\* what the calls that returned wrote to the location
WrittenTo(loc) == {tasks[w[1]].contents[w[2]] : w \in {x \in Writes : WriteLoc(x) = loc}}

\* C12: once the operations that write the same artifact name have finished,
\* the artifact holds exactly what one of them wrote.
C12_LastWriterWins ==
  AllReturned =>
    \A w \in Writes :
      WriteLoc(w) \in DOMAIN files /\ files[WriteLoc(w)].pages \in WrittenTo(WriteLoc(w))

\* C13: an operation that a destroy overtakes either returns with every one
\* of its artifacts written and on disk, or ends with a reported error.
C13_AllOrError ==
  \A id \in DOMAIN tasks :
    /\ tasks[id].pc = "done" => tasks[id].status = 200 /\ tasks[id].intact
    /\ tasks[id].pc = "failed" => tasks[id].status = 500 /\ tasks[id].err # "none"

\* C16: every operation finds the directory it writes into existing at the
\* moment it opens its output there.
C16_TargetDirExists ==
  \A id \in DOMAIN tasks :
    ~(tasks[id].pc = "failed" /\ tasks[id].k >= 1 /\ tasks[id].err = "FileNotFoundError")
\* C16, the layout alone: when a handler that ensured the layout has answered,
\* the base directory and the six named directories exist, and ensuring the
\* layout once more changes nothing.
C16_LayoutEnsured ==
  (resp.op \in {"upload", "split", "merge", "zip", "download"} /\ resp.admitted) =>
    /\ LayoutDirs(BaseDir(resp.sid)) \subseteq dirs
    /\ SetupPaths(dirs, BaseDir(resp.sid)) = dirs

\* C14: whatever requests overlap, the registry holds for an id either no
\* entry or one complete entry, the client id together with its expiry.
C14_CompleteEntries ==
  \A s \in DOMAIN SESSIONS :
    /\ DOMAIN SESSIONS[s] = {"client_id", "expires_at"}
    /\ SESSIONS[s].client_id \in DOMAIN CLIENTS \cup {NoClient}
    /\ SESSIONS[s].expires_at \in 0..(MaxNow + ACCESS_TOKEN_EXPIRE_MINUTES)

\* an entry is extended through the store while a worker thread is writing
\* and a second session is registered
C14_Witness ==
  /\ resp.op = "extend" /\ resp.status = 200
  /\ Executing(tasks) # {}
  /\ Cardinality(DOMAIN SESSIONS) > 1
  /\ SESSIONS[resp.sid].expires_at > ACCESS_TOKEN_EXPIRE_MINUTES

Queued == {work_queue[i] : i \in 1..Len(work_queue)}

-----------------------------------------------------------------------------
(* Claims: the names of the artifacts (SpecNaming) *)

\* a page number in two digits at least
TwoDigits(p) == IF p < 10 THEN "0" \o ToString(p) ELSE ToString(p)
RECURSIVE Underscored(_, _, _)
\* the pages T[i..n] in two digits, joined by "_"
Underscored(T, i, n) ==
  IF i > n THEN ""
  ELSE IF i = n THEN TwoDigits(T[i])
  ELSE TwoDigits(T[i]) \o "_" \o Underscored(T, i + 1, n)
\* <stem>_pages_sel_<first ten pages>[_plus<k - 10>].pdf
SelName(stem, T) ==
  <<stem \o "_pages_sel_" \o Underscored(T, 1, IF Len(T) < 10 THEN Len(T) ELSE 10)
         \o (IF Len(T) > 10 THEN "_plus" \o ToString(Len(T) - 10) ELSE ""),
    ".pdf">>

\* a combined split of an explicit page set, without a range, that succeeded
CombinedOfSet ==
  /\ SplitAnswered /\ resp.status = 200 /\ resp.combined
  /\ resp.pages.present /\ resp.pages.list # <<>> /\ ~resp.page_range.present

\* C17: a combined split of an explicit page set writes exactly one artifact,
\* holding the selected pages in ascending order and named
\* <stem>_pages_sel_ with the first min(10, k) pages in two digits joined by
\* "_", and _plus<k-10> exactly when k > 10 pages are selected.
C17_CombinedName ==
  CombinedOfSet =>
    /\ Len(resp.outputs) = 1
    /\ Parent(resp.outputs[1]) = SplitOut(BaseDir(resp.sid))
    /\ resp.outputs[1][Len(resp.outputs[1])] = SelName(PathName(resp.src)[1], resp.targets)
    /\ Ascending
    /\ \A p \in 1..resp.total :
         HasPage(p) <=> \E i \in 1..Len(resp.pages.list) : resp.pages.list[i] = p
    /\ resp.outputs[1] \in DOMAIN files
    /\ files[resp.outputs[1]].pages = [i \in 1..Len(resp.targets) |-> SourcePages[resp.targets[i]]]

\* pages [2, 7, 11, 15] of a.pdf give a_pages_sel_02_07_11_15.pdf with 4 pages
C17_Witness ==
  /\ CombinedOfSet /\ resp.pages.list = <<2, 7, 11, 15>>
  /\ resp.outputs[1][Len(resp.outputs[1])] = Pdf("a_pages_sel_02_07_11_15")
  /\ Len(files[resp.outputs[1]].pages) = 4
\* eleven pages selected: ten listed, and _plus1
C17_WitnessPlus ==
  /\ CombinedOfSet /\ Len(resp.targets) = 11
  /\ resp.outputs[1][Len(resp.outputs[1])] =
       Pdf("a_pages_sel_01_02_03_04_05_06_07_08_09_10_plus1")

\* C18: a split never writes to an artifact name that a split of the same
\* source with another target list wrote to: no artifact is overwritten with
\* other pages.
C18_CollisionFree ==
  (SplitAnswered /\ resp.status = 200) => resp.clobbered = {}

\* C19: a split invoked again with the arguments of the split before it, on
\* the unchanged source, returns the same artifact names and adds no file.
C19_SplitIdempotent ==
  (SplitAnswered /\ resp.again) =>
    /\ resp.status = 200
    /\ resp.same_outputs
    /\ ~resp.grew
    /\ \A i \in 1..Len(resp.outputs) : resp.outputs[i] \in DOMAIN files

\* a separate split of several pages invoked a second time
C19_Witness ==
  /\ SplitAnswered /\ resp.again /\ ~resp.combined
  /\ Len(resp.outputs) > 1 /\ ~resp.grew

-----------------------------------------------------------------------------
(* Claims: split and merge (SpecRoundTrip) *)

\* the request answered last split every page of a document of one page or
\* more into separate files
SplitAllSeparate ==
  /\ SplitAnswered /\ resp.status = 200 /\ ~resp.combined
  /\ resp.total >= 1 /\ resp.targets = Range(1, resp.total)

\* C20: when the files returned by a split of all N >= 1 pages into separate
\* files are merged in the order returned, the merge succeeds and its output
\* has exactly N pages, page i being page i of the source.
C20_RoundTrip ==
  [][(SplitAllSeparate /\ resp'.op = "merge" /\ resp'.admitted
        /\ resp'.filenames = Returned_files)
     => /\ resp'.status = 200
        /\ resp'.out \in DOMAIN files'
        /\ Len(files'[resp'.out].pages) = resp.total
        /\ \A i \in 1..resp.total :
             files'[resp'.out].pages[i] = files[Locate(dirs, resp.src)].pages[i]]_vars

\* the pages of a three-page document split and merged again, next to an
\* upload that carries the name of the first page file
C20_Witness ==
  /\ resp.op = "merge" /\ resp.admitted /\ resp.status = 200
  /\ Len(resp.filenames) = MaxPages
  /\ \A i \in 1..MaxPages :
       resp.filenames[i] = AbsPath(Append(SplitOut(BaseDir(resp.sid)), PageName("a", i)))
  /\ files[resp.out].pages = PdfDoc("a", MaxPages)
  /\ Append(InputDir(BaseDir(resp.sid)), Pdf("a_p0001")) \in DOMAIN files

-----------------------------------------------------------------------------
(* Claims: merging (SpecMerge) *)

\* the uploaded document a name of MergeInputs stands for
MergeSource(sid, name) == Append(InputDir(BaseDir(sid)), PathName(name))

RECURSIVE PagesInOrder(_, _, _)
\* the pages of the named uploads, one document after the other
PagesInOrder(F, sid, names) ==
  IF names = <<>> THEN <<>>
  ELSE F[MergeSource(sid, Head(names))].pages \o PagesInOrder(F, sid, Tail(names))

\* a merge request was answered in this step
MergeStep == resp'.op = "merge" /\ resp'.admitted

AllResolve(F, sid, names) ==
  \A i \in 1..Len(names) : MergeSource(sid, names[i]) \in DOMAIN F

\* the merge wrote one file and touched no other
OneArtifact ==
  /\ resp'.status = 200
  /\ resp'.out \in DOMAIN files'
  /\ DOMAIN files' \subseteq DOMAIN files \cup {resp'.out}
  /\ \A l \in DOMAIN files \ {resp'.out} : files'[l] = files[l]

\* the pages of the inputs in the order given
Concatenated ==
  files'[resp'.out].pages = PagesInOrder(files, resp'.sid, resp'.filenames)

\* C21: a merge of f1..fk under the name n writes exactly one artifact, inside
\* the session's merge output directory whatever n is, holding the pages of
\* f1, then f2, ... then fk; when some fi does not resolve nothing is written.
C21_MergeArtifact ==
  [][MergeStep =>
       IF AllResolve(files, resp'.sid, resp'.filenames)
       THEN /\ OneArtifact
            /\ Concatenated
            /\ IsPrefix(MergeOut(BaseDir(resp'.sid)), resp'.out)
       ELSE resp'.status # 200 /\ files' = files]_vars

\* the same without the place of the artifact
C21_PagesInOrder ==
  [][MergeStep =>
       IF AllResolve(files, resp'.sid, resp'.filenames)
       THEN OneArtifact /\ Concatenated
       ELSE resp'.status # 200 /\ files' = files]_vars

-----------------------------------------------------------------------------
(* Claims: the download note (SpecNote) *)

DownloadSent == resp.op = "download" /\ resp.admitted /\ resp.status = 200

\* the matches that were not sent, relative to the session's base directory
NotChosen ==
  {RelativeTo(BaseDir(resp.sid), l) : l \in resp.all_matches \ {resp.best}}

\* C22: a download by name with several matches carries a note that lists
\* matches that were not chosen, and not the chosen one: all of them up to
\* five, five and an ellipsis when there are more than five; a download with
\* one match carries no note.
C22_NoteOthers ==
  DownloadSent =>
    IF Cardinality(resp.all_matches) > 1
    THEN /\ resp.note.present
         /\ resp.note.listed \subseteq NotChosen
         /\ Cardinality(resp.note.listed) = Min(NoteListed, Cardinality(NotChosen))
         /\ resp.note.more <=> Cardinality(NotChosen) > NoteListed
    ELSE ~resp.note.present

\* the note as the handler builds it: present exactly when there are several
\* matches, up to five of all the matches, the ellipsis when the matches are
\* more than five
C22_NoteAllMatches ==
  DownloadSent =>
    /\ resp.note.present <=> Cardinality(resp.all_matches) > 1
    /\ resp.note.present =>
         /\ resp.note.listed \subseteq
              {RelativeTo(BaseDir(resp.sid), l) : l \in resp.all_matches}
         /\ Cardinality(resp.note.listed)
              = Min(NoteListed, Cardinality(resp.all_matches))
         /\ resp.note.more <=> Cardinality(resp.all_matches) > NoteListed

\* six matches: five not chosen, and the note ends with the ellipsis
C22_SixMatches ==
  DownloadSent /\ Cardinality(resp.all_matches) = NoteListed + 1 /\ resp.note.more

-----------------------------------------------------------------------------
(* Claims: the not-found error of the resolver (SpecResolve) *)

\* a present selector that matched none of its candidates
NotResolved ==
  /\ SplitAnswered /\ resp.filename.present
  /\ resp.err = "FileNotFoundError" /\ resp.src = None

\* the paths the resolver looked up: the selector itself, input/<selector>
\* and input/<basename of the selector>
CandidatesTried ==
  LET input == AbsPath(InputDir(BaseDir(resp.sid))) IN
  {resp.filename, Join(input, resp.filename),
   Join(input, Path(FALSE, <<PathName(resp.filename)>>))}

\* the places the error names, ".." resolved
Reported == {Resolve(resp.tried[i]) : i \in 1..Len(resp.tried)}

\* C23: when a present selector matches none of its candidates, the error
\* reports every candidate tried: the literal path, input/<selector> and
\* input/<basename of the selector>.
C23_ReportsTried ==
  NotResolved => \A c \in CandidatesTried : Resolve(c) \in Reported

\* the error names the selector and input/<selector>
C23_ReportsTwo ==
  NotResolved =>
    resp.tried = <<resp.filename,
                   Join(AbsPath(InputDir(BaseDir(resp.sid))), resp.filename)>>

-----------------------------------------------------------------------------
(* Claims: rejected uploads (SpecUpload) *)

\* neither the content type nor the name says PDF
NotPdf(file) ==
  /\ file.content_type \notin {"application/pdf", "application/x-pdf",
                               "application/octet-stream"}
  /\ PathName(file.filename)[2] \notin {".pdf", ".PDF", ".Pdf"}

\* an upload request with such a file was answered in this step
RejectedUpload ==
  /\ resp'.op = "upload" /\ resp'.admitted
  /\ \E i \in 1..Len(resp'.upfiles) : NotPdf(resp'.upfiles[i])

\* where the input directory puts a file of the request
UploadedTo(sid, file) == Append(InputDir(BaseDir(sid)), PathName(file.filename))

\* the answer to such a request is 400
C24_Status400 == [][RejectedUpload => resp'.status = 400]_vars

\* such a request adds no file of its own to the input directory
C24_NothingStored ==
  [][RejectedUpload =>
       \A i \in 1..Len(resp'.upfiles) :
          UploadedTo(resp'.sid, resp'.upfiles[i]) \in DOMAIN files'
            => UploadedTo(resp'.sid, resp'.upfiles[i]) \in DOMAIN files]_vars

\* C24: an upload request with a file that is a PDF neither by content type
\* nor by name is answered 400, and no file of the request, the files listed
\* before the rejected one included, is stored in the input directory.
C24_RejectedUpload ==
  [][RejectedUpload =>
       /\ resp'.status = 400
       /\ \A i \in 1..Len(resp'.upfiles) :
            UploadedTo(resp'.sid, resp'.upfiles[i]) \in DOMAIN files'
              => UploadedTo(resp'.sid, resp'.upfiles[i]) \in DOMAIN files]_vars

-----------------------------------------------------------------------------
(* Claims: who is admitted (SpecSession) *)

\* a request on a session path was answered in this step
AuthStep == now' = now /\ resp'.op = "cleanup"

\* a token the server issued, not expired, for this session
BearerValid(b, S) ==
  /\ b.present
  /\ \E tok \in tokens : b = Bearer(tok)
  /\ b.exp >= now
  /\ b.sid = S

\* the credentials of a registered client that owns S, before S expires
BasicValid(c, S) ==
  /\ c.present
  /\ c.username \in DOMAIN CLIENTS /\ CLIENTS[c.username] = c.password
  /\ S \in DOMAIN SESSIONS
  /\ SESSIONS[S].client_id = c.username
  /\ now < SESSIONS[S].expires_at

\* no entry of the registry gets an earlier expiry
ExpiryKept ==
  \A s \in DOMAIN SESSIONS :
    s \in DOMAIN SESSIONS' /\ SESSIONS'[s].expires_at >= SESSIONS[s].expires_at

\* C25: a request on the path of session S is admitted only with a valid
\* bearer token for S or, without a bearer token, with valid Basic credentials
\* of the client that owns S before S expires; a bearer token that is invalid
\* or for another session rejects the request; a Basic admission moves the
\* expiry of S to now + TTL, and no stored expiry decreases.
C25_AdmittedOnlyIf ==
  [][AuthStep =>
       /\ resp'.admitted =>
            \/ BearerValid(resp'.bearer, resp'.sid)
            \/ ~resp'.bearer.present /\ BasicValid(resp'.basic, resp'.sid)
       /\ (resp'.bearer.present /\ ~BearerValid(resp'.bearer, resp'.sid))
            => ~resp'.admitted
       /\ (resp'.admitted /\ ~resp'.bearer.present) =>
            SESSIONS'[resp'.sid].expires_at = now + ACCESS_TOKEN_EXPIRE_MINUTES
       /\ ExpiryKept]_vars

\* the bearer token comes first, and the expiry only moves forward
C25_BearerFirstExpiryKept ==
  [][/\ AuthStep =>
          /\ (resp'.bearer.present /\ ~BearerValid(resp'.bearer, resp'.sid))
               => ~resp'.admitted
          /\ (resp'.admitted /\ ~resp'.bearer.present) =>
               SESSIONS'[resp'.sid].expires_at = now + ACCESS_TOKEN_EXPIRE_MINUTES
     /\ ExpiryKept]_vars

\* a request admitted without any credentials
C25_NoCredentials ==
  /\ resp.op = "cleanup" /\ resp.admitted
  /\ ~resp.bearer.present /\ ~resp.basic.present

-----------------------------------------------------------------------------
(* Claims: the workspace comes back (SpecWorkspace) *)

\* the routes that obtain a toolkit
ToolkitOps == {"upload", "ocr", "markdown", "split", "merge", "download", "zip"}

\* an admitted request on one of them was answered in this step
ToolkitStep == resp'.op \in ToolkitOps /\ resp'.admitted

\* the request before it was a successful cleanup of the same session
AfterCleanup ==
  /\ resp.op = "cleanup" /\ resp.admitted /\ resp.status = 200
  /\ resp'.sid = resp.sid

\* the whole tree of the session is there, and nothing of what the cleanup
\* removed
TreeBack(sid) ==
  /\ LayoutDirs(BaseDir(sid)) \subseteq dirs'
  /\ \A l \in DOMAIN files' : InParents(BaseDir(sid), l) => l \notin DOMAIN files

\* a base directory goes away only by a cleanup of its session
OnlyCleanupRemoves ==
  \A sid \in SessionIds :
    (BaseDir(sid) \in dirs /\ BaseDir(sid) \notin dirs')
      => resp'.op = "cleanup" /\ resp'.sid = sid /\ resp'.admitted

\* C26: every admitted request on a route that obtains a toolkit leaves the
\* complete directory tree of its session on disk; the first such request
\* after a successful cleanup of the session finds the tree back, without
\* the old files; and only a cleanup removes a base directory.
C26_WorkspaceRecreated ==
  [][/\ ToolkitStep => LayoutDirs(BaseDir(resp'.sid)) \subseteq dirs'
     /\ (ToolkitStep /\ AfterCleanup) => TreeBack(resp'.sid)
     /\ OnlyCleanupRemoves]_vars

\* the same for the sessions whose base directory is not taken by a file
C26_RecreatedUnlessFile ==
  [][/\ (ToolkitStep /\ BaseDir(resp'.sid) \notin DOMAIN files)
          => LayoutDirs(BaseDir(resp'.sid)) \subseteq dirs'
     /\ (ToolkitStep /\ AfterCleanup /\ BaseDir(resp'.sid) \notin DOMAIN files)
          => TreeBack(resp'.sid)
     /\ OnlyCleanupRemoves]_vars

\* a cleanup that cannot remove what is at the base directory
C26_CleanupFails ==
  resp.op = "cleanup" /\ resp.admitted /\ resp.status = 500

====
